---- MODULE Spec2Model ----
(***************************************************************************)
(* A model of the data-analysis agent: the response protocol               *)
(* (LLMInterface.parse_tool_call), the tool registry (ToolRegistry), the   *)
(* bounded conversation memory (AgentMemory) and the orchestration loop    *)
(* (DataAnalysisAgent.process_question).                                   *)
(*                                                                         *)
(* A Python str is a sequence of one-character strings (the grave accent   *)
(* is the string BACKTICK).  Indices returned by Find/RFind are Python's   *)
(* (0-based, -1 for "absent"); Slice(s, a, b) is s[a:b].  A Python value   *)
(* is a record [t |-> tag, v |-> text, d |-> mapping]: tag "str" with its  *)
(* characters, "num"/"bool" with the literal's text, "null" (None), "obj"  *)
(* (a dict) with its text and its items, "arr" (a list) with its text,     *)
(* and "pylist" (a list holding an object json.dumps cannot encode, such   *)
(* as an ObjectId).  A dict is the sequence of its items                   *)
(* [k |-> key, val |-> value] in insertion order.                          *)
(*                                                                         *)
(* Operators take the values they branch on as parameters, so that each    *)
(* value is computed once: parse_tool_call(resp) hands the bounds of the   *)
(* block to ParseBlock, which hands the decoded block to Decision.         *)
(***************************************************************************)
EXTENDS Integers, Sequences, FiniteSets, TLC

VARIABLES
    response,      \* SpecParse: the raw model text handed to parse_tool_call
    parsed,        \* SpecParse: <<>> before the call, <<decision>> after it
    tools,         \* ToolRegistry.tools: insertion-ordered <<name, capability>> pairs
    registrations, \* SpecRegistry history: the register_tool calls, in order
    last_dispatch, \* SpecRegistry: <<>>, or <<the last execute_tool call on this registry>>
    memories,      \* AgentMemory.memories
    max_entries,   \* AgentMemory.max_entries
    csv_metadata,  \* AgentMemory.csv_metadata
    recorded,      \* SpecMemory history: the entries recorded since the log was last empty
    pc,            \* process_question: position of the turn
    turn,          \* process_question: locals and counters of the turn
    calc_input,    \* SpecCalc: the argument of the last calculator_tool call
    calculated,    \* SpecCalc: <<>>, or <<the outcome of the last calculator_tool call>>
    dataset,       \* registry.csv_loader.df: <<>> (None), or <<the DataFrame>>
    last_call,     \* <<>>, or <<the last call of a dataset capability>>
    streamed,      \* SpecStream: <<>>, or <<the last run of generate_streaming>>
    s_pc,          \* process_question_streaming: position of the turn
    s_turn,        \* process_question_streaming: locals and counters of the turn
    s_memories,    \* the memories of the agent running process_question_streaming
    events,        \* SpecSession: the load_csv and clear_memory calls made, in order
    mongo_client   \* registry.mongo_client: <<>> (None), or <<the MongoDBClient>>

vars == <<response, parsed, tools, registrations, last_dispatch, memories,
          max_entries, csv_metadata, recorded, pc, turn, calc_input, calculated,
          dataset, last_call, streamed, s_pc, s_turn, s_memories, events,
          mongo_client>>

\* the variables of the agent, its registry and its memory
agent_vars == <<response, parsed, tools, registrations, last_dispatch, memories,
                max_entries, csv_metadata, recorded, pc, turn>>

\* the variables of the calculator, and of the dataset capabilities
calc_vars == <<calc_input, calculated>>
data_vars == <<dataset, last_call>>
\* the variables of the streaming calls
stream_vars == <<streamed, s_pc, s_turn, s_memories>>
\* the history of a session, and the client of the document store
session_vars == <<events, mongo_client>>
tool_vars == <<calc_vars, data_vars, stream_vars, session_vars>>

\* no capability has been called
ToolsIdle ==
    /\ calc_input = <<>>
    /\ calculated = <<>>
    /\ dataset = <<>>
    /\ last_call = <<>>
    /\ streamed = <<>>
    /\ s_pc = "idle"
    /\ s_turn = <<>>
    /\ s_memories = <<>>
    /\ events = <<>>
    /\ mongo_client = <<>>

-----------------------------------------------------------------------------
(* Python str operations                                                   *)

SetMin(S) == CHOOSE x \in S : \A y \in S : x <= y
SetMax(S) == CHOOSE x \in S : \A y \in S : x >= y

\* s[a:b] for 0 <= a, b <= len(s)
Slice(s, a, b) == IF b <= a THEN <<>> ELSE SubSeq(s, a + 1, b)

\* s.find(sub, start)
Find(s, sub, start) ==
    LET hits == {i \in start..(Len(s) - Len(sub)) : Slice(s, i, i + Len(sub)) = sub}
    IN  IF hits = {} THEN -1 ELSE SetMin(hits)

\* s.rfind(sub)
RFind(s, sub) ==
    LET hits == {i \in 0..(Len(s) - Len(sub)) : Slice(s, i, i + Len(sub)) = sub}
    IN  IF hits = {} THEN -1 ELSE SetMax(hits)

\* s.replace(old, new): non-overlapping occurrences, left to right
RECURSIVE Replace(_, _, _)
Replace(s, old, new) ==
    LET i == Find(s, old, 0)
    IN  IF i = -1 THEN s
        ELSE Slice(s, 0, i) \o new \o Replace(Slice(s, i + Len(old), Len(s)), old, new)

IsSpace(c) == c \in {" ", "\n", "\t", "\r"}

RECURSIVE LStrip(_)
LStrip(s) == IF s # <<>> /\ IsSpace(Head(s)) THEN LStrip(Tail(s)) ELSE s

RECURSIVE RStrip(_)
RStrip(s) ==
    IF s # <<>> /\ IsSpace(s[Len(s)]) THEN RStrip(SubSeq(s, 1, Len(s) - 1)) ELSE s

\* s.strip()
Strip(s) == RStrip(LStrip(s))

-----------------------------------------------------------------------------
(* json.loads, as far as parse_tool_call needs it: the standard decoder on *)
(* the characters of the model's texts.  The escapes \b, \f and \uXXXX     *)
(* do not occur in those texts and are not decoded.                        *)

EmptyDict == <<>>
None == [t |-> "null", v |-> <<>>, d |-> EmptyDict]
Str(chars) == [t |-> "str", v |-> chars, d |-> EmptyDict]
Value(tag, text) == [t |-> tag, v |-> text, d |-> EmptyDict]
Dict(text, mapping) == [t |-> "obj", v |-> text, d |-> mapping]
IsStr(x) == x.t = "str"

Digits == {"0", "1", "2", "3", "4", "5", "6", "7", "8", "9"}

\* the character at 1-based index i, "" past the end
At(s, i) == IF i >= 1 /\ i <= Len(s) THEN s[i] ELSE ""

\* whether the literal lit starts at index i
LitAt(s, i, lit) == i - 1 + Len(lit) <= Len(s) /\ Slice(s, i - 1, i - 1 + Len(lit)) = lit

RECURSIVE SkipWs(_, _)
SkipWs(s, i) == IF IsSpace(At(s, i)) THEN SkipWs(s, i + 1) ELSE i

RECURSIVE DigitRun(_, _)
DigitRun(s, i) == IF At(s, i) \in Digits THEN DigitRun(s, i + 1) ELSE i

\* NUMBER_RE (-?(?:0|[1-9]\d*))(\.\d+)?([eE][-+]?\d+)? matched at i:
\* the index after the match, 0 when there is none
NumberEnd(s, i) ==
    LET j == IF At(s, i) = "-" THEN i + 1 ELSE i
        k == IF At(s, j) = "0" THEN j + 1
             ELSE IF At(s, j) \in Digits THEN DigitRun(s, j) ELSE 0
        f == IF k # 0 /\ At(s, k) = "." /\ At(s, k + 1) \in Digits
             THEN DigitRun(s, k + 1) ELSE k
        m == IF At(s, f + 1) \in {"+", "-"} THEN f + 2 ELSE f + 1
    IN  IF f # 0 /\ At(s, f) \in {"e", "E"} /\ At(s, m) \in Digits
        THEN DigitRun(s, m) ELSE f

Unescape(c) ==
    CASE c = "n" -> "\n"
      [] c = "t" -> "\t"
      [] c = "r" -> "\r"
      [] OTHER   -> c

\* the characters of a string literal's body with its escapes decoded;
\* ok = FALSE on an escape the decoder rejects
RECURSIVE DecodeEscapes(_)
DecodeEscapes(body) ==
    LET i == Find(body, <<"\\">>, 0)
        rest == DecodeEscapes(Slice(body, i + 2, Len(body)))
    IN  IF i = -1 THEN [ok |-> TRUE, str |-> body]
        ELSE IF At(body, i + 2) \notin {"\"", "\\", "/", "n", "t", "r"}
        THEN [ok |-> FALSE, str |-> <<>>]
        ELSE [ok |-> rest.ok,
              str |-> Slice(body, 0, i) \o <<Unescape(At(body, i + 2))>> \o rest.str]

\* whether the character at index j of a string body that starts at index i
\* is escaped: an odd run of backslashes precedes it
Escaped(s, i, j) ==
    \E k \in i..(j - 1) :
        /\ \A m \in k..(j - 1) : s[m] = "\\"
        /\ (k = i \/ s[k - 1] # "\\")
        /\ (j - k) % 2 = 1

\* py_scanstring from the index i after the opening quote, whose closing
\* quote is at index j: the decoded characters and the index after the quote
ScannedBody(body, j) ==
    IF \E m \in 1..Len(body) : body[m] \in {"\n", "\t", "\r"}
    THEN [ok |-> FALSE, pos |-> 0, str |-> <<>>]
    ELSE [ok |-> DecodeEscapes(body).ok, pos |-> j + 1, str |-> DecodeEscapes(body).str]

ScanTo(s, i, ends) ==
    IF ends = {} THEN [ok |-> FALSE, pos |-> 0, str |-> <<>>]
    ELSE ScannedBody(Slice(s, i - 1, SetMin(ends) - 1), SetMin(ends))

\* py_scanstring from the index i after the opening quote
ScanString(s, i) == ScanTo(s, i, {j \in i..Len(s) : s[j] = "\"" /\ ~Escaped(s, i, j)})

\* k in d
Has(d, k) == \E i \in 1..Len(d) : d[i].k = k

\* d[k], for a key of d
Lookup(d, k) == d[CHOOSE i \in 1..Len(d) : d[i].k = k].val

\* d.get(k, default)
Get(d, k, default) == IF Has(d, k) THEN Lookup(d, k) ELSE default

\* d[k] = v: an existing key keeps its place, a new key goes last
DictSet(d, k, v) ==
    IF Has(d, k)
    THEN [i \in 1..Len(d) |-> IF d[i].k = k THEN [k |-> k, val |-> v] ELSE d[i]]
    ELSE Append(d, [k |-> k, val |-> v])

\* the keys of d, in order
Keys(d) == [i \in 1..Len(d) |-> d[i].k]

BadValue == [ok |-> FALSE, pos |-> 0, val |-> None]
BadObject == [ok |-> FALSE, pos |-> 0, dict |-> EmptyDict]

RECURSIVE ParseValue(_, _)
RECURSIVE ParseMembers(_, _, _)
RECURSIVE ParseElements(_, _)

\* JSONObject's loop, step by step: after a "," the next key must open at n
MemberNext(s, d, n) == IF At(s, n) = "\"" THEN ParseMembers(s, n, d) ELSE BadObject

\* after a member's value, at e: "}" ends the object, "," continues it
MemberEnd(s, d, e) ==
    IF At(s, e) = "}" THEN [ok |-> TRUE, pos |-> e + 1, dict |-> d]
    ELSE IF At(s, e) = "," THEN MemberNext(s, d, SkipWs(s, e + 1))
    ELSE BadObject

\* the member's value v was scanned
MemberValue(s, d, key, v) ==
    IF ~v.ok THEN BadObject ELSE MemberEnd(s, DictSet(d, key, v.val), SkipWs(s, v.pos))

\* the member's key was scanned and ":" is expected at c
MemberColon(s, d, key, c) ==
    IF At(s, c) # ":" THEN BadObject
    ELSE MemberValue(s, d, key, ParseValue(s, SkipWs(s, c + 1)))

\* the member's key k was scanned
MemberKey(s, d, k) ==
    IF ~k.ok THEN BadObject ELSE MemberColon(s, d, k.str, SkipWs(s, k.pos))

\* JSONObject's loop, at the opening quote of a key, with the items d so far
ParseMembers(s, i, d) == MemberKey(s, d, ScanString(s, i + 1))

\* JSONObject, at "{", whose first token is at j
ObjectFrom(s, j) ==
    IF At(s, j) = "}" THEN [ok |-> TRUE, pos |-> j + 1, dict |-> EmptyDict]
    ELSE IF At(s, j) = "\"" THEN ParseMembers(s, j, EmptyDict)
    ELSE BadObject

\* JSONObject, at "{"
ParseObject(s, i) == ObjectFrom(s, SkipWs(s, i + 1))

\* JSONArray's loop: after an element, at e
ElementEnd(s, e) ==
    IF At(s, e) = "]" THEN e + 1
    ELSE IF At(s, e) = "," THEN ParseElements(s, SkipWs(s, e + 1))
    ELSE 0

ElementValue(s, v) == IF ~v.ok THEN 0 ELSE ElementEnd(s, SkipWs(s, v.pos))

\* JSONArray's loop, at the first character of an element: the index after
\* "]", 0 on error
ParseElements(s, i) == ElementValue(s, ParseValue(s, i))

ArrayFrom(s, j) == IF At(s, j) = "]" THEN j + 1 ELSE ParseElements(s, j)

\* JSONArray, at "[": the index after "]", 0 on error
ParseArray(s, i) == ArrayFrom(s, SkipWs(s, i + 1))

\* the values scanner._scan_once builds from what was scanned at i
StringValue(r) ==
    IF r.ok THEN [ok |-> TRUE, pos |-> r.pos, val |-> Str(r.str)] ELSE BadValue

ObjectValue(s, i, r) ==
    IF r.ok THEN [ok |-> TRUE, pos |-> r.pos, val |-> Dict(Slice(s, i - 1, r.pos - 1), r.dict)]
    ELSE BadValue

ArrayValue(s, i, end) ==
    IF end # 0 THEN [ok |-> TRUE, pos |-> end, val |-> Value("arr", Slice(s, i - 1, end - 1))]
    ELSE BadValue

LiteralValue(i, tag, lit) == [ok |-> TRUE, pos |-> i + Len(lit), val |-> Value(tag, lit)]

\* a number, or one of the constants NaN, Infinity, -Infinity
NumberValue(s, i, end) ==
    IF end # 0
    THEN [ok |-> TRUE, pos |-> end, val |-> Value("num", Slice(s, i - 1, end - 1))]
    ELSE IF LitAt(s, i, <<"N", "a", "N">>)
    THEN LiteralValue(i, "num", <<"N", "a", "N">>)
    ELSE IF LitAt(s, i, <<"I", "n", "f", "i", "n", "i", "t", "y">>)
    THEN LiteralValue(i, "num", <<"I", "n", "f", "i", "n", "i", "t", "y">>)
    ELSE IF LitAt(s, i, <<"-", "I", "n", "f", "i", "n", "i", "t", "y">>)
    THEN LiteralValue(i, "num", <<"-", "I", "n", "f", "i", "n", "i", "t", "y">>)
    ELSE BadValue

\* scanner._scan_once
ParseValue(s, i) ==
    IF At(s, i) = "\"" THEN StringValue(ScanString(s, i + 1))
    ELSE IF At(s, i) = "{" THEN ObjectValue(s, i, ParseObject(s, i))
    ELSE IF At(s, i) = "[" THEN ArrayValue(s, i, ParseArray(s, i))
    ELSE IF LitAt(s, i, <<"n", "u", "l", "l">>)
    THEN [ok |-> TRUE, pos |-> i + 4, val |-> None]
    ELSE IF LitAt(s, i, <<"t", "r", "u", "e">>)
    THEN LiteralValue(i, "bool", <<"t", "r", "u", "e">>)
    ELSE IF LitAt(s, i, <<"f", "a", "l", "s", "e">>)
    THEN LiteralValue(i, "bool", <<"f", "a", "l", "s", "e">>)
    ELSE NumberValue(s, i, NumberEnd(s, i))

\* json.loads(s): ok = FALSE is JSONDecodeError; t is the type of the decoded
\* value and dict its items when it is an object
NotDecoded == [ok |-> FALSE, t |-> "null", dict |-> EmptyDict]

LoadedObject(s, o) ==
    IF o.ok /\ SkipWs(s, o.pos) = Len(s) + 1
    THEN [ok |-> TRUE, t |-> "obj", dict |-> o.dict] ELSE NotDecoded

LoadedValue(s, r) ==
    IF r.ok /\ SkipWs(s, r.pos) = Len(s) + 1
    THEN [ok |-> TRUE, t |-> r.val.t, dict |-> EmptyDict] ELSE NotDecoded

LoadsFrom(s, i) ==
    IF At(s, i) = "{" THEN LoadedObject(s, ParseObject(s, i))
    ELSE LoadedValue(s, ParseValue(s, i))

json_loads(s) == LoadsFrom(s, SkipWs(s, 1))

-----------------------------------------------------------------------------
(* LLMInterface.parse_tool_call                                            *)

KEY_tool_name == <<"t", "o", "o", "l", "_", "n", "a", "m", "e">>
KEY_tool_input == <<"t", "o", "o", "l", "_", "i", "n", "p", "u", "t">>
\* the grave accent: a TLA+ string cannot hold it, so the character is named
BACKTICK == "<grave>"
FENCE_json == <<BACKTICK, BACKTICK, BACKTICK, "j", "s", "o", "n">>
Generate_Final_Answer ==
    <<"G", "e", "n", "e", "r", "a", "t", "e", "_", "F", "i", "n", "a", "l", "_",
      "A", "n", "s", "w", "e", "r">>

\* the fallback carrying the normalized text instead of the raw text
Fallback_normalized(resp) ==
    << [k |-> KEY_tool_name, val |-> Str(Generate_Final_Answer)],
       [k |-> KEY_tool_input, val |-> Str(Strip(Replace(resp, <<"\n">>, <<" ">>)))] >>

\* {"tool_name": "Generate_Final_Answer", "tool_input": response}
Fallback(resp) ==
    << [k |-> KEY_tool_name, val |-> Str(Generate_Final_Answer)],
       [k |-> KEY_tool_input, val |-> Str(resp)] >>

\* start_idx of the block: the first "{" at or after the fence when there
\* is one, the first "{" of the text otherwise
StartIdx(resp) ==
    IF Find(resp, FENCE_json, 0) = -1
    THEN Find(resp, <<"{">>, 0)
    ELSE Find(resp, <<"{">>, Find(resp, FENCE_json, 0))

EndIdx(resp) == RFind(resp, <<"}">>)

\* the clean-up of the extracted block before decoding
CleanJson(json_str) ==
    LET a == Strip(Replace(json_str, <<"\n">>, <<" ">>))
        b == Replace(Replace(a, <<",", "}">>, <<"}">>), <<",", " ", "}">>, <<"}">>)
    IN  Replace(Replace(b, <<",", "]">>, <<"]">>), <<",", " ", "]">>, <<"]">>)

\* the decision without the check that tool_name is present
Decision_unchecked(resp, tool_call) ==
    IF ~tool_call.ok THEN Fallback(resp)
    ELSE IF tool_call.t # "obj" THEN Fallback(resp)
    ELSE tool_call.dict

\* the decision made of the decoded block
Decision(resp, tool_call) ==
    IF ~tool_call.ok THEN Fallback(resp)
    ELSE IF tool_call.t # "obj" THEN Fallback(resp)
    ELSE IF ~Has(tool_call.dict, KEY_tool_name) THEN Fallback(resp)
    ELSE tool_call.dict

\* the decision, given the bounds of the block
ParseBlock(resp, start_idx, end_idx) ==
    IF start_idx = -1 \/ end_idx = -1 THEN Fallback(resp)
    ELSE Decision(resp, json_loads(CleanJson(Slice(resp, start_idx, end_idx + 1))))

parse_tool_call(resp) == ParseBlock(resp, StartIdx(resp), EndIdx(resp))

-----------------------------------------------------------------------------
(* Model texts: what LLMInterface.generate may return.  A text is an       *)
(* optional prose prefix, an optional json fence, a body and a suffix.     *)

T_Calculator ==
    <<"C", "a", "l", "c", "u", "l", "a", "t", "o", "r">>
T_Query_Database ==
    <<"Q", "u", "e", "r", "y", "_", "D", "a", "t", "a", "b", "a", "s", "e">>
T_query_database_spaced ==
    <<"q", "u", "e", "r", "y", " ", "d", "a", "t", "a", "b", "a", "s", "e">>
T_generate_final_answer ==
    <<"g", "e", "n", "e", "r", "a", "t", "e", "_", "f", "i", "n", "a", "l", "_",
      "a", "n", "s", "w", "e", "r">>
T_QUERY_DATABASE ==
    <<"Q", "U", "E", "R", "Y", "_", "D", "A", "T", "A", "B", "A", "S", "E">>
T_Unknown_Tool ==
    <<"P", "l", "o", "t">>
T_expr ==
    <<"2", "+", "2">>
T_answer ==
    <<"I", "t", " ", "i", "s", " ", "4", ".">>
T_input_comma_brace ==
    <<"a", ",", "}", "b", ",", " ", "]">>
T_timeout ==
    <<"E", "r", "r", "o", "r", ":", " ", "R", "e", "q", "u", "e", "s", "t", " ", "t",
      "o", " ", "O", "l", "l", "a", "m", "a", " ", "t", "i", "m", "e", "d", " ", "o",
      "u", "t", ".", " ", "T", "h", "e", " ", "m", "o", "d", "e", "l", " ", "m", "i",
      "g", "h", "t", " ", "b", "e", " ", "s", "t", "i", "l", "l", " ", "l", "o", "a",
      "d", "i", "n", "g", " ", "o", "r", " ", "t", "h", "e", " ", "s", "e", "r", "v",
      "e", "r", " ", "i", "s", " ", "b", "u", "s", "y", ".">>


\* the JSON string literal "a\"b\\\n", of the text a"b\ and a line feed
L_escaped == <<"\"", "a", "\\", "\"", "b", "\\", "\\", "\\", "n", "\"">>

\* a JSON string literal of a text that needs no escaping
Quoted(s) == <<"\"">> \o s \o <<"\"">>

\* {"tool_name": <name>, "tool_input": <input>} as json.dumps separates it
JsonCall(name_lit, input_lit) ==
    <<"{">> \o Quoted(KEY_tool_name) \o <<":", " ">> \o name_lit \o <<",", " ">>
        \o Quoted(KEY_tool_input) \o <<":", " ">> \o input_lit \o <<"}">>

\* the same object as models lay it out: one key per line, a trailing comma
JsonCallLines(name_lit, input_lit) ==
    <<"{", "\n", " ">> \o Quoted(KEY_tool_name) \o <<":", " ">> \o name_lit \o <<",", "\n", " ">>
        \o Quoted(KEY_tool_input) \o <<":", " ">> \o input_lit \o <<",", "\n", "}">>

WellFormedBodies ==
    { JsonCall(Quoted(T_Calculator), Quoted(T_expr)),
      JsonCallLines(Quoted(T_Query_Database), Quoted(T_expr)),
      JsonCall(Quoted(T_query_database_spaced), Quoted(T_expr)),
      JsonCall(Quoted(T_QUERY_DATABASE), Quoted(T_expr)),
      JsonCall(Quoted(T_Unknown_Tool), Quoted(T_expr)),
      JsonCall(Quoted(Generate_Final_Answer), Quoted(T_answer)),
      JsonCallLines(Quoted(Generate_Final_Answer), Quoted(T_answer)),
      JsonCall(Quoted(T_Calculator), Quoted(T_input_comma_brace)),
      JsonCall(Quoted(T_Calculator), L_escaped) }

\* decodable objects whose tool_name or tool_input is missing, null or no string
OddBodies ==
    { <<"{">> \o Quoted(KEY_tool_input) \o <<":">> \o Quoted(T_expr) \o <<"}">>,
      <<"{">> \o Quoted(KEY_tool_name) \o <<":">> \o Quoted(T_Calculator) \o <<"}">>,
      <<"{">> \o Quoted(KEY_tool_name) \o <<":">> \o Quoted(Generate_Final_Answer) \o <<"}">>,
      JsonCall(<<"n", "u", "l", "l">>, Quoted(T_expr)),
      JsonCall(<<"7">>, <<"{">> \o Quoted(<<"a">>) \o <<":", "[", "1", ",", " ", "2", "]", "}">>),
      JsonCall(Quoted(T_Calculator), <<"n", "u", "l", "l">>),
      JsonCall(Quoted(Generate_Final_Answer), <<"4", "2">>),
      JsonCall(Quoted(Generate_Final_Answer), <<"n", "u", "l", "l">>) }

\* texts with no decodable block
BrokenBodies ==
    { T_answer,
      T_timeout,
      <<"{">> \o T_answer,
      T_answer \o <<"}">>,
      <<"}", " ", "{">>,
      <<"{">> \o KEY_tool_name \o <<":", " ">> \o T_Calculator \o <<"}">>,
      <<"{">> \o Quoted(KEY_tool_name) \o <<" ">> \o Quoted(T_Calculator) \o <<"}">>,
      <<"{", "}">> }

Bodies == WellFormedBodies \cup OddBodies \cup BrokenBodies

S_Sure ==
    <<"S", "u", "r", "e", "!", " ">>
S_BraceProse ==
    <<"U", "s", "e", " ", "{", "x", "}", ":", " ">>
S_Fence == FENCE_json \o <<"\n">>
S_FenceEnd == <<"\n", BACKTICK, BACKTICK, BACKTICK>>
S_Done ==
    <<" ", "D", "o", "n", "e", ".">>
S_BraceTail ==
    <<" ", "{", "o", "k", "}">>

Prefixes == {<<>>, S_Sure, S_BraceProse}
Fences == {<<>>, S_Fence}
Suffixes == {<<>>, S_FenceEnd, S_Done, S_BraceTail}

ModelTexts ==
    {p \o f \o b \o x : p \in Prefixes, f \in Fences, b \in Bodies, x \in Suffixes}

-----------------------------------------------------------------------------
(* ToolRegistry                                                            *)

UPPER ==
    <<"A", "B", "C", "D", "E", "F", "G", "H", "I", "J", "K", "L", "M", "N", "O", "P",
      "Q", "R", "S", "T", "U", "V", "W", "X", "Y", "Z">>
LOWER ==
    <<"a", "b", "c", "d", "e", "f", "g", "h", "i", "j", "k", "l", "m", "n", "o", "p",
      "q", "r", "s", "t", "u", "v", "w", "x", "y", "z">>

LowerChar(c) ==
    IF \E i \in 1..Len(UPPER) : UPPER[i] = c
    THEN LOWER[CHOOSE i \in 1..Len(UPPER) : UPPER[i] = c]
    ELSE c

\* s.lower()
Lower(s) == [i \in 1..Len(s) |-> LowerChar(s[i])]

\* name.lower().replace(" ", "_")
Normalize(name) == Replace(Lower(name), <<" ">>, <<"_">>)

T_Successfully ==
    <<"S", "u", "c", "c", "e", "s", "s", "f", "u", "l", "l", "y", " ", "e", "x", "e",
      "c", "u", "t", "e", "d", " ", "t", "o", "o", "l", ":", " ">>
T_ErrorExecuting ==
    <<"E", "r", "r", "o", "r", " ", "e", "x", "e", "c", "u", "t", "i", "n", "g", " ",
      "t", "o", "o", "l", " ">>
T_ToolNotFound ==
    <<"T", "o", "o", "l", " ", "n", "o", "t", " ", "f", "o", "u", "n", "d", ":", " ">>
T_ColonSpace == <<":", " ">>
\* str(e) of the exception tool_input[:100] raises, without the name of the type
T_not_subscriptable ==
    <<"o", "b", "j", "e", "c", "t", " ", "i", "s", " ", "n", "o", "t", " ", "s", "u",
      "b", "s", "c", "r", "i", "p", "t", "a", "b", "l", "e">>
T_boom ==
    <<"b", "o", "o", "m">>

\* self.tools[name] = func on the insertion-ordered dict: an existing key
\* keeps its place and gets the new value, a new key goes last
register_tool(reg, name, func) ==
    IF \E i \in 1..Len(reg) : reg[i].name = name
    THEN [i \in 1..Len(reg) |->
            IF reg[i].name = name THEN [name |-> name, func |-> func] ELSE reg[i]]
    ELSE Append(reg, [name |-> name, func |-> func])

\* the registered names the loop of execute_tool matches, as indices in
\* iteration order
Matches(reg, normalized_name) ==
    {i \in 1..Len(reg) : Normalize(reg[i].name) = normalized_name}

\* tool_input[:100] raises TypeError unless tool_input is a str or a list
Sliceable(x) == x.t \in {"str", "arr"}

\* What a capability does when it is invoked: it returns a result or raises.
Returns(result) == [kind |-> "returns", result |-> result, msg |-> <<>>]
Raises(msg) == [kind |-> "raises", result |-> None, msg |-> msg]

\* the matched entry invoked without the except clause: an exception of
\* the capability leaves execute_tool
Invoke_uncaught(tool, tool_input, outcome) ==
    IF ~Sliceable(tool_input)
    THEN [raised |-> FALSE, result |-> None,
          description |-> T_ErrorExecuting \o tool.name \o T_ColonSpace \o T_not_subscriptable,
          invoked |-> <<>>]
    ELSE IF outcome.kind = "raises"
    THEN [raised |-> TRUE, result |-> None, description |-> <<>>,
          invoked |-> <<[func |-> tool.func, input |-> tool_input]>>]
    ELSE [raised |-> FALSE, result |-> outcome.result,
          description |-> T_Successfully \o tool.name,
          invoked |-> <<[func |-> tool.func, input |-> tool_input]>>]

\* result = func(tool_input) inside the try of execute_tool, for the matched
\* entry tool: the logger's tool_input[:100] comes first and raises inside
\* the try, before the capability is called
Invoke(tool, tool_input, outcome) ==
    IF ~Sliceable(tool_input)
    THEN [raised |-> FALSE, result |-> None,
          description |-> T_ErrorExecuting \o tool.name \o T_ColonSpace \o T_not_subscriptable,
          invoked |-> <<>>]
    ELSE IF outcome.kind = "raises"
    THEN [raised |-> FALSE, result |-> None,
          description |-> T_ErrorExecuting \o tool.name \o T_ColonSpace \o outcome.msg,
          invoked |-> <<[func |-> tool.func, input |-> tool_input]>>]
    ELSE [raised |-> FALSE, result |-> outcome.result,
          description |-> T_Successfully \o tool.name,
          invoked |-> <<[func |-> tool.func, input |-> tool_input]>>]

\* the loop of execute_tool reporting the normalized name when none matches
Dispatch_normalized(reg, tool_name, tool_input, outcome, hits) ==
    IF hits = {}
    THEN [raised |-> FALSE, result |-> None,
          description |-> T_ToolNotFound \o Normalize(tool_name.v), invoked |-> <<>>]
    ELSE Invoke(reg[SetMin(hits)], tool_input, outcome)

\* the loop of execute_tool over self.tools.items(): the first entry whose
\* normalized name matches is invoked; none gives "Tool not found"
Dispatch(reg, tool_name, tool_input, outcome, hits) ==
    IF hits = {}
    THEN [raised |-> FALSE, result |-> None,
          description |-> T_ToolNotFound \o tool_name.v, invoked |-> <<>>]
    ELSE Invoke(reg[SetMin(hits)], tool_input, outcome)

\* ToolRegistry.execute_tool(tool_name, tool_input) when the matched
\* capability, if invoked, behaves as outcome.  raised: an exception leaves
\* execute_tool (tool_name.lower() on a non-str, outside the try);
\* invoked: the capabilities called, with their argument.
execute_tool(reg, tool_name, tool_input, outcome) ==
    IF ~IsStr(tool_name)
    THEN [raised |-> TRUE, result |-> None, description |-> <<>>, invoked |-> <<>>]
    ELSE Dispatch(reg, tool_name, tool_input, outcome, Matches(reg, Normalize(tool_name.v)))

-----------------------------------------------------------------------------
(* AgentMemory                                                             *)

\* MEMORY_SIZE, the default of max_entries
MEMORY_SIZE == 10

\* the entry add_entry builds: metadata or {}
Entry(entry_type, content, metadata) ==
    [type |-> entry_type, content |-> content, metadata |-> metadata]

\* add_entry evicting the newest entry instead of the oldest
add_entry_newest(mem, max, entry) ==
    IF Len(Append(mem, entry)) > max THEN mem ELSE Append(mem, entry)

\* AgentMemory.add_entry on the log mem with capacity max: append, then
\* drop the oldest entry if the log is longer than the capacity
add_entry(mem, max, entry) ==
    IF Len(Append(mem, entry)) > max THEN Tail(Append(mem, entry)) ELSE Append(mem, entry)

\* AgentMemory.clear
clear(mem) == <<>>

\* str(n) of a natural number
RECURSIVE NatText(_)
NatText(n) ==
    LET digit == <<"0", "1", "2", "3", "4", "5", "6", "7", "8", "9">>[(n % 10) + 1]
    IN  IF n < 10 THEN <<digit>> ELSE Append(NatText(n \div 10), digit)

T_LoadedCsv ==
    <<"L", "o", "a", "d", "e", "d", " ", "C", "S", "V", " ", "f", "i", "l", "e", " ",
      "w", "i", "t", "h", " ">>
T_RowsAnd ==
    <<" ", "r", "o", "w", "s", " ", "a", "n", "d", " ">>
T_Columns ==
    <<" ", "c", "o", "l", "u", "m", "n", "s">>

\* csv_metadata = {} of __init__: no dataset summary
NoMetadata == [empty |-> TRUE, num_rows |-> 0, num_columns |-> 0]

\* the summary CSVLoader._extract_metadata builds for a table of that shape
Metadata(rows, cols) == [empty |-> FALSE, num_rows |-> rows, num_columns |-> cols]

\* the entry set_csv_metadata records
CsvLoadedEntry(metadata) ==
    Entry("csv_loaded",
          T_LoadedCsv \o NatText(metadata.num_rows) \o T_RowsAnd
              \o NatText(metadata.num_columns) \o T_Columns,
          EmptyDict)

-----------------------------------------------------------------------------
(* Formatting helpers of the orchestration loop                            *)

T_Decided ==
    <<"D", "e", "c", "i", "d", "e", "d", " ", "t", "o", " ", "u", "s", "e", " ", "t",
      "o", "o", "l", ":", " ">>
T_Unknown ==
    <<"U", "n", "k", "n", "o", "w", "n">>
T_Used ==
    <<"U", "s", "e", "d", " ">>
T_WithResult ==
    <<" ", "w", "i", "t", "h", " ", "r", "e", "s", "u", "l", "t", ":", " ">>
T_Ellipsis == <<".", ".", ".">>
T_Provided ==
    <<"P", "r", "o", "v", "i", "d", "e", "d", " ", "a", "n", "s", "w", "e", "r", ":",
      " ">>
T_None == <<"N", "o", "n", "e">>
T_ToolResponse ==
    <<"T", "O", "O", "L", " ", "R", "E", "S", "P", "O", "N", "S", "E", ":", " ">>
T_ErrorColon ==
    <<"E", "r", "r", "o", "r", ":", " ">>
KEY_error == <<"e", "r", "r", "o", "r">>
KEY_result == <<"r", "e", "s", "u", "l", "t">>

\* str(x), as an f-string formats x: the text of a str, None for None, the
\* text of the value otherwise
PyStr(x) == IF x.t = "null" THEN T_None ELSE x.v

\* s[:100]
Truncate(s) == Slice(s, 0, IF Len(s) < 100 THEN Len(s) ELSE 100)

\* helpers.format_response_for_display: json.dumps(x, indent=2) of a dict or
\* list, str(x) when that raises or for any other value; the text a dict or
\* list value carries is that text
format_response_for_display(x) == PyStr(x)

\* the lines format_tool_response writes for the items of a result without
\* an error key; json.dumps raises TypeError on a list or dict that holds an
\* object it cannot encode
RECURSIVE ItemLines(_)
ItemLines(items) ==
    LET value == Head(items).val
        rest == ItemLines(Tail(items))
        line == IF value.t \in {"obj", "arr"}
                THEN Head(items).k \o <<":", "\n">> \o value.v \o <<"\n">>
                ELSE Head(items).k \o <<":", " ">> \o PyStr(value) \o <<"\n">>
    IN  IF items = <<>> THEN [raised |-> FALSE, text |-> <<>>]
        ELSE IF value.t = "pylist" THEN [raised |-> TRUE, text |-> <<>>]
        ELSE [raised |-> rest.raised, text |-> line \o rest.text]

\* PromptTemplates.format_tool_response
format_tool_response(tool_name, tool_result) ==
    LET head == T_ToolResponse \o PyStr(tool_name) \o <<"\n">>
        lines == ItemLines(tool_result.d)
    IN  IF tool_result.t # "obj"
        THEN [raised |-> FALSE, text |-> head \o PyStr(tool_result)]
        ELSE IF Has(tool_result.d, KEY_error)
        THEN [raised |-> FALSE,
              text |-> head \o T_ErrorColon \o PyStr(Lookup(tool_result.d, KEY_error)) \o <<"\n">>]
        ELSE [raised |-> lines.raised, text |-> head \o lines.text]

\* the entry recorded for a decision
DecisionEntry(tool_call) ==
    Entry("agent_decision",
          T_Decided \o PyStr(Get(tool_call, KEY_tool_name, Str(T_Unknown))),
          << [k |-> KEY_tool_name, val |-> Get(tool_call, KEY_tool_name, None)],
             [k |-> KEY_tool_input, val |-> Get(tool_call, KEY_tool_input, None)] >>)

\* the entry recorded for a tool result
ToolResultEntry(tool_name, tool_result) ==
    Entry("tool_result",
          T_Used \o PyStr(tool_name) \o T_WithResult
              \o Truncate(format_response_for_display(tool_result)) \o T_Ellipsis,
          << [k |-> KEY_tool_name, val |-> tool_name],
             [k |-> KEY_result, val |-> tool_result] >>)

\* the entry recorded for the final answer (final_answer is a str or a list)
FinalAnswerEntry(final_answer) ==
    Entry("final_answer", T_Provided \o Truncate(final_answer.v) \o T_Ellipsis, EmptyDict)

-----------------------------------------------------------------------------
(* DataAnalysisAgent.process_question                                      *)
(*                                                                         *)
(* The only suspension points of a turn are its calls of llm.generate, so  *)
(* a turn is the steps between them: pc is "idle", "await1" (the first     *)
(* call is pending), "await2", "await3", "done" (returned) or "raised" (an *)
(* exception left process_question).  turn holds the turn's bookkeeping:   *)
(* the model texts received, the decisions parsed, the execute_tool calls  *)
(* made, the tool responses put into the prompt of the next model call,    *)
(* the answer returned, and the order of the events.                       *)

NewTurn ==
    [responses |-> <<>>, decisions |-> <<>>, dispatches |-> <<>>, context |-> <<>>,
     answer |-> None, events |-> <<>>]

\* whether a decision makes the loop execute a tool
NamesRealTool(tool_call) ==
    Has(tool_call, KEY_tool_name) /\ Lookup(tool_call, KEY_tool_name) # Str(Generate_Final_Answer)

\* the turn after the model text resp was received and parsed as tool_call
Received(t, resp, tool_call) ==
    [t EXCEPT !.responses = Append(@, resp),
              !.decisions = Append(@, tool_call),
              !.events = Append(@, "generate")]

\* the turn after execute_tool was called and did ex
Dispatched(t, tool_name, tool_input, ex) ==
    [t EXCEPT !.dispatches = Append(@, [tool_name |-> tool_name,
                                        tool_input |-> tool_input,
                                        raised |-> ex.raised,
                                        invoked |-> ex.invoked,
                                        result |-> ex.result,
                                        description |-> ex.description]),
              !.events = Append(@, "dispatch")]

ReturnAnswer_unrecorded(mem, max, t, final_answer) ==
    IF ~Sliceable(final_answer)
    THEN [pc |-> "raised", mem |-> mem, turn |-> t]
    ELSE [pc |-> "done", mem |-> mem,
          turn |-> [t EXCEPT !.answer = final_answer,
                             !.events = Append(@, "final_answer")]]

\* self.memory.add_entry("final_answer", ...); return final_answer.
\* final_answer[:100] raises TypeError unless final_answer is a str or a list.
ReturnAnswer(mem, max, t, final_answer) ==
    IF ~Sliceable(final_answer)
    THEN [pc |-> "raised", mem |-> mem, turn |-> t]
    ELSE [pc |-> "done",
          mem |-> add_entry(mem, max, FinalAnswerEntry(final_answer)),
          turn |-> [t EXCEPT !.answer = final_answer,
                             !.events = Append(@, "final_answer")]]

\* format_tool_response was called on the result and did formatted; the
\* result is recorded and the next model call is pending (pc = next)
RecordResult(mem, max, t, tool_name, tool_result, formatted, next) ==
    IF formatted.raised
    THEN [pc |-> "raised", mem |-> mem, turn |-> t]
    ELSE [pc |-> next,
          mem |-> add_entry(mem, max, ToolResultEntry(tool_name, tool_result)),
          turn |-> [t EXCEPT !.context = Append(@, formatted.text),
                             !.events = Append(@, "tool_result")]]

\* execute_tool was called and did ex
Executed(mem, max, t, tool_name, tool_input, ex, next) ==
    IF ex.raised
    THEN [pc |-> "raised", mem |-> mem, turn |-> Dispatched(t, tool_name, tool_input, ex)]
    ELSE RecordResult(mem, max, Dispatched(t, tool_name, tool_input, ex), tool_name,
                      ex.result, format_tool_response(tool_name, ex.result), next)

\* tool_name = tool_call["tool_name"]; tool_input = tool_call.get("tool_input", "")
ExecuteCall(reg, mem, max, t, tool_name, tool_input, outcome, next) ==
    Executed(mem, max, t, tool_name, tool_input,
             execute_tool(reg, tool_name, tool_input, outcome), next)

\* execute the tool of a decision, format its response and record the
\* result; then the next model call is pending (pc = next)
ToolRound(reg, mem, max, t, tool_call, outcome, next) ==
    ExecuteCall(reg, mem, max, t, Lookup(tool_call, KEY_tool_name),
                Get(tool_call, KEY_tool_input, Str(<<>>)), outcome, next)

\* the answer taken from tool_input whatever tool the last decision names
ExtractFinalAnswer_input(mem, max, t, final_response, final_tool_call) ==
    ReturnAnswer(mem, max, t, Get(final_tool_call, KEY_tool_input, Str(final_response)))

\* "Extract final answer": the answer is taken from the last model text
ExtractFinalAnswer(mem, max, t, final_response, final_tool_call) ==
    IF Get(final_tool_call, KEY_tool_name, None) = Str(Generate_Final_Answer)
    THEN ReturnAnswer(mem, max, t, Get(final_tool_call, KEY_tool_input, Str(final_response)))
    ELSE ReturnAnswer(mem, max, t, Str(final_response))

\* the first decision answered with the raw model text instead of tool_input
FirstDecision_raw(reg, mem, max, t, resp, tool_call, outcome) ==
    IF NamesRealTool(tool_call)
    THEN ToolRound(reg, mem, max, [t EXCEPT !.events = Append(@, "agent_decision")],
                   tool_call, outcome, "await2")
    ELSE ReturnAnswer(mem, max, [t EXCEPT !.events = Append(@, "agent_decision")], Str(resp))

\* the first model text was parsed as tool_call: the decision is recorded,
\* then a real tool is executed or the answer returned
FirstDecision(reg, mem, max, t, resp, tool_call, outcome) ==
    IF NamesRealTool(tool_call)
    THEN ToolRound(reg, mem, max, [t EXCEPT !.events = Append(@, "agent_decision")],
                   tool_call, outcome, "await2")
    ELSE ReturnAnswer(mem, max, [t EXCEPT !.events = Append(@, "agent_decision")],
                      Get(tool_call, KEY_tool_input, Str(resp)))

\* the decision recorded after the tool round instead of before it
AfterFirstResponse_decision_last(reg, mem, max, t, resp, tool_call, outcome) ==
    [FirstDecision(reg, mem, max, Received(t, resp, tool_call), resp, tool_call, outcome)
        EXCEPT !.mem = add_entry(@, max, DecisionEntry(tool_call))]

\* from the first model text to the second model call or the return
AfterFirstResponse(reg, mem, max, t, resp, tool_call, outcome) ==
    FirstDecision(reg, add_entry(mem, max, DecisionEntry(tool_call)), max,
                  Received(t, resp, tool_call), resp, tool_call, outcome)

\* the second model text handled without a second tool round
AfterSecondResponse_one_round(reg, mem, max, t, final_response, second_tool_call, outcome) ==
    ExtractFinalAnswer(mem, max, Received(t, final_response, second_tool_call),
                       final_response, second_tool_call)

\* from the second model text to the third model call or the return
AfterSecondResponse(reg, mem, max, t, final_response, second_tool_call, outcome) ==
    IF NamesRealTool(second_tool_call)
    THEN ToolRound(reg, mem, max, Received(t, final_response, second_tool_call),
                   second_tool_call, outcome, "await3")
    ELSE ExtractFinalAnswer(mem, max, Received(t, final_response, second_tool_call),
                            final_response, second_tool_call)

\* from the third model text to the return
AfterThirdResponse(mem, max, t, final_response, final_tool_call) ==
    ExtractFinalAnswer(mem, max, Received(t, final_response, final_tool_call),
                       final_response, final_tool_call)

-----------------------------------------------------------------------------
(* The agent of app.py: create_standard_tools, AgentMemory, one turn       *)

T_Analyze_CSV ==
    <<"A", "n", "a", "l", "y", "z", "e", "_", "C", "S", "V">>
T_Format_Visualization ==
    <<"F", "o", "r", "m", "a", "t", "_", "V", "i", "s", "u", "a", "l", "i", "z", "a",
      "t", "i", "o", "n">>
T_MongoDB_Query ==
    <<"M", "o", "n", "g", "o", "D", "B", "_", "Q", "u", "e", "r", "y">>

\* the registry create_standard_tools returns
StandardTools ==
    register_tool(register_tool(register_tool(register_tool(register_tool(register_tool(<<>>,
        T_Calculator, "calculator_tool"),
        T_Query_Database, "query_database_tool"),
        T_Analyze_CSV, "analyze_csv_tool"),
        Generate_Final_Answer, "generate_final_answer"),
        T_Format_Visualization, "format_visualization_data"),
        T_MongoDB_Query, "mongo_query_tool")

\* results a capability may return: the dict, with the text
\* json.dumps(result, indent=2) gives for it
\* calculator_tool("2+2")
RES_ok ==
    Dict(
      <<"{", "\n", " ", " ", "\"", "r", "e", "s", "u", "l", "t", "\"", ":", " ", "\"",
        "R", "e", "s", "u", "l", "t", ":", " ", "4", "\"", ",", "\n", " ", " ", "\"",
        "e", "x", "p", "r", "e", "s", "s", "i", "o", "n", "\"", ":", " ", "\"", "2", "+",
        "2", "\"", "\n", "}">>,
      << [k |-> KEY_result, val |-> Str(<<"R", "e", "s", "u", "l", "t", ":", " ", "4">>)],
         [k |-> <<"e", "x", "p", "r", "e", "s", "s", "i", "o", "n">>, val |-> Str(T_expr)] >>)
\* analyze_csv_tool without a dataset
RES_error ==
    Dict(
      <<"{", "\n", " ", " ", "\"", "e", "r", "r", "o", "r", "\"", ":", " ", "\"", "N",
        "o", " ", "C", "S", "V", " ", "d", "a", "t", "a", " ", "l", "o", "a", "d", "e",
        "d", "\"", "\n", "}">>,
      << [k |-> KEY_error, val |-> Str(
          <<"N", "o", " ", "C", "S", "V", " ", "d", "a", "t", "a", " ", "l", "o", "a",
            "d", "e", "d">>)] >>)
\* mongo_query_tool's find: documents as pymongo returns them, with their
\* ObjectId; json.dumps raises on it and the text is str(result)
RES_documents ==
    Dict(
      <<"{", "'", "o", "p", "e", "r", "a", "t", "i", "o", "n", "'", ":", " ", "'", "f",
        "i", "n", "d", "'", ",", " ", "'", "r", "e", "s", "u", "l", "t", "'", ":", " ",
        "[", "{", "'", "_", "i", "d", "'", ":", " ", "O", "b", "j", "e", "c", "t", "I",
        "d", "(", "'", "1", "'", ")", "}", "]", ",", " ", "'", "c", "o", "u", "n", "t",
        "'", ":", " ", "1", "}">>,
      << [k |-> <<"o", "p", "e", "r", "a", "t", "i", "o", "n">>, val |-> Str(<<"f", "i", "n", "d">>)],
         [k |-> KEY_result, val |-> Value("pylist",
          <<"[", "{", "'", "_", "i", "d", "'", ":", " ", "O", "b", "j", "e", "c", "t",
            "I", "d", "(", "'", "1", "'", ")", "}", "]">>)],
         [k |-> <<"c", "o", "u", "n", "t">>, val |-> Value("num", <<"1">>)] >>)

ToolOutcomes == {Returns(RES_ok), Returns(RES_error), Returns(RES_documents), Raises(T_boom)}

\* What the transport does on a model call: the server answers with status
\* 200 and a response text, with another status and a body, the read times
\* out, or the request fails otherwise with str(e) = msg.
Responded(text) == [kind |-> "ok", code |-> <<"2", "0", "0">>, text |-> text]
Status(code, body) == [kind |-> "status", code |-> code, text |-> body]
ReadTimeout == [kind |-> "timeout", code |-> <<>>, text |-> <<>>]
Failed(msg) == [kind |-> "failed", code |-> <<>>, text |-> msg]

T_OllamaStatus ==     <<"O", "l", "l", "a", "m", "a", " ", "A", "P", "I", " ", "r", "e", "t", "u", "r",
      "n", "e", "d", " ", "s", "t", "a", "t", "u", "s", " ", "c", "o", "d", "e", " ">>
T_InternalServerError ==     <<"I", "n", "t", "e", "r", "n", "a", "l", " ", "S", "e", "r", "v", "e", "r", " ",
      "E", "r", "r", "o", "r">>
T_model_not_found ==     <<"{", "\"", "e", "r", "r", "o", "r", "\"", ":", "\"", "m", "o", "d", "e", "l", " ",
      "n", "o", "t", " ", "f", "o", "u", "n", "d", "\"", "}">>
T_connection_failed ==     <<"A", "l", "l", " ", "c", "o", "n", "n", "e", "c", "t", "i", "o", "n", " ", "a",
      "t", "t", "e", "m", "p", "t", "s", " ", "f", "a", "i", "l", "e", "d">>

\* LLMInterface.generate: the text returned for what the transport did
generate(transport) ==
    CASE transport.kind = "ok" -> transport.text
      [] transport.kind = "status" ->
            T_ErrorColon \o T_OllamaStatus \o transport.code \o T_ColonSpace \o transport.text
      [] transport.kind = "timeout" -> T_timeout
      [] transport.kind = "failed" -> T_ErrorColon \o transport.text

\* the faults of the transport
TransportFaults ==
    { ReadTimeout, Status(<<"5", "0", "0">>, T_InternalServerError),
      Status(<<"4", "0", "4">>, T_model_not_found), Failed(T_connection_failed) }

\* texts of the model
Completions ==
    { S_Sure \o S_Fence \o JsonCall(Quoted(T_Calculator), Quoted(T_expr)) \o S_FenceEnd,
      JsonCall(Quoted(T_query_database_spaced), Quoted(T_expr)),
      JsonCall(Quoted(T_Unknown_Tool), Quoted(T_expr)),
      S_Fence \o JsonCallLines(Quoted(Generate_Final_Answer), Quoted(T_answer)) \o S_FenceEnd,
      JsonCall(Quoted(T_generate_final_answer), Quoted(T_answer)),
      T_answer,
      JsonCall(<<"n", "u", "l", "l">>, Quoted(T_expr)),
      JsonCall(Quoted(Generate_Final_Answer), <<"4", "2">>),
      JsonCall(Quoted(Generate_Final_Answer), <<"[", "1", "]">>),
      JsonCall(Quoted(T_Calculator), <<"n", "u", "l", "l">>),
      <<"{">> \o Quoted(KEY_tool_name) \o <<":">> \o Quoted(Generate_Final_Answer) \o <<"}">>,
      <<"{">> \o Quoted(KEY_tool_name) \o <<":">> \o Quoted(T_Calculator) \o <<"}">> }

\* what llm.generate returns in the turns
Responses == {generate(transport) : transport \in {Responded(text) : text \in Completions} \cup TransportFaults}

\* capacities of the memory besides the default
MaxCapacity == 2
Capacities == (1..MaxCapacity) \cup {MEMORY_SIZE}

\* DataAnalysisAgent.__init__
Init ==
    /\ response = <<>>
    /\ parsed = <<>>
    /\ tools = StandardTools
    /\ registrations = <<>>
    /\ last_dispatch = <<>>
    /\ memories = <<>>
    /\ max_entries \in Capacities
    /\ csv_metadata = NoMetadata
    /\ recorded = <<>>
    /\ pc = "idle"
    /\ turn = NewTurn
    /\ ToolsIdle

\* process_question up to its first model call
StartTurn ==
    /\ pc = "idle"
    /\ pc' = "await1"
    /\ turn' = NewTurn
    /\ UNCHANGED <<response, parsed, tools, registrations, last_dispatch, memories,
                   max_entries, csv_metadata, recorded>>
    /\ UNCHANGED tool_vars

\* the step of a turn taken when the pending model call returns
Resume(step) ==
    /\ pc' = step.pc
    /\ memories' = step.mem
    /\ turn' = step.turn
    /\ UNCHANGED <<response, parsed, tools, registrations, last_dispatch, max_entries,
                   csv_metadata, recorded>>
    /\ UNCHANGED tool_vars

FirstResponse ==
    /\ pc = "await1"
    /\ \E resp \in Responses, outcome \in ToolOutcomes :
          Resume(AfterFirstResponse(tools, memories, max_entries, turn, resp,
                                    parse_tool_call(resp), outcome))

SecondResponse ==
    /\ pc = "await2"
    /\ \E resp \in Responses, outcome \in ToolOutcomes :
          Resume(AfterSecondResponse(tools, memories, max_entries, turn, resp,
                                     parse_tool_call(resp), outcome))

ThirdResponse ==
    /\ pc = "await3"
    /\ \E resp \in Responses :
          Resume(AfterThirdResponse(memories, max_entries, turn, resp,
                                    parse_tool_call(resp)))

Next == StartTurn \/ FirstResponse \/ SecondResponse \/ ThirdResponse

Spec == Init /\ [][Next]_vars

-----------------------------------------------------------------------------
(* LLMInterface.generate_streaming                                         *)
(*                                                                         *)
(* A stream is what the transport does on the request: the status of the   *)
(* response, the lines aiter_lines yields, and how it ends once they were  *)
(* read ("end", "timeout" for ReadTimeout, "failed" for another            *)
(* exception).  A run is the stream with what the call passed to the sink  *)
(* (callback), in order, each item a fragment or an error text, the number *)
(* of lines it read and the text it returned.                              *)

Stream(status, lines, ending) == [status |-> status, lines |-> lines, ending |-> ending]

KEY_response ==     <<"r", "e", "s", "p", "o", "n", "s", "e">>
KEY_done ==     <<"d", "o", "n", "e">>
T_200 == <<"2", "0", "0">>
\* str(e) of the exception raised on a chunk that is no dict or whose
\* response is no str, abbreviated
T_bad_chunk ==     <<"c", "h", "u", "n", "k", " ", "i", "s", " ", "n", "o", "t", " ", "a", " ", "d",
      "i", "c", "t", " ", "w", "i", "t", "h", " ", "a", " ", "t", "e", "x", "t">>

Fragment(text) == [kind |-> "fragment", text |-> text]
ErrorText(text) == [kind |-> "error", text |-> text]

\* bool(x) of a decoded value
Truthy(x) ==
    CASE x.t = "bool" -> x.v = <<"t", "r", "u", "e">>
      [] x.t = "null" -> FALSE
      [] x.t = "str" -> x.v # <<>>
      [] x.t = "num" -> \E i \in 1..Len(x.v) : x.v[i] \in Digits \ {"0"}
      [] x.t = "obj" -> x.d # EmptyDict
      [] OTHER -> TRUE

Run(stream, received, emitted, returned) ==
    [stream |-> stream, received |-> received, emitted |-> emitted, returned |-> returned]

\* an except clause: error_msg is passed to the sink and returned
Faulted(stream, received, emitted, error_msg) ==
    Run(stream, received, Append(emitted, ErrorText(error_msg)), error_msg)

\* the stream is over after the lines read: return full_response, or the
\* except clause of the fault
Ended(stream, received, full_response, emitted) ==
    IF stream.ending = "timeout" THEN Faulted(stream, received, emitted, T_timeout)
    ELSE IF stream.ending = "failed"
    THEN Faulted(stream, received, emitted, T_ErrorColon \o T_connection_failed)
    ELSE Run(stream, received, emitted, full_response)

RECURSIVE ReadFrom(_, _, _, _)

\* the rest of the loop body once the fragment of chunk i is handled
DoneCheck(stream, i, full_response, emitted, chunk_data) ==
    IF Truthy(Get(chunk_data, KEY_done, Value("bool", <<"f", "a", "l", "s", "e">>)))
    THEN Run(stream, i, emitted, full_response)
    ELSE ReadFrom(stream, i + 1, full_response, emitted)

Chunk_done_first(stream, i, full_response, emitted, chunk_data) ==
    IF Truthy(Get(chunk_data, KEY_done, Value("bool", <<"f", "a", "l", "s", "e">>)))
    THEN Run(stream, i, emitted, full_response)
    ELSE IF ~Has(chunk_data, KEY_response)
    THEN ReadFrom(stream, i + 1, full_response, emitted)
    ELSE IF ~IsStr(Lookup(chunk_data, KEY_response))
    THEN Faulted(stream, i, emitted, T_ErrorColon \o T_bad_chunk)
    ELSE ReadFrom(stream, i + 1, full_response \o Lookup(chunk_data, KEY_response).v,
                  Append(emitted, Fragment(Lookup(chunk_data, KEY_response).v)))

\* the loop body on the dict decoded from line i
Chunk(stream, i, full_response, emitted, chunk_data) ==
    IF ~Has(chunk_data, KEY_response)
    THEN DoneCheck(stream, i, full_response, emitted, chunk_data)
    ELSE IF ~IsStr(Lookup(chunk_data, KEY_response))
    THEN Faulted(stream, i, emitted, T_ErrorColon \o T_bad_chunk)
    ELSE DoneCheck(stream, i, full_response \o Lookup(chunk_data, KEY_response).v,
                   Append(emitted, Fragment(Lookup(chunk_data, KEY_response).v)), chunk_data)

\* the loop body on line i, loaded being json.loads(chunk)
Line(stream, i, full_response, emitted, loaded) ==
    IF ~loaded.ok THEN ReadFrom(stream, i + 1, full_response, emitted)
    ELSE IF loaded.t # "obj" THEN Faulted(stream, i, emitted, T_ErrorColon \o T_bad_chunk)
    ELSE Chunk(stream, i, full_response, emitted, loaded.dict)

\* async for chunk in response.aiter_lines(), from line i on
ReadFrom(stream, i, full_response, emitted) ==
    IF i > Len(stream.lines) THEN Ended(stream, i - 1, full_response, emitted)
    ELSE IF stream.lines[i] = <<>> THEN ReadFrom(stream, i + 1, full_response, emitted)
    ELSE Line(stream, i, full_response, emitted, json_loads(stream.lines[i]))

\* LLMInterface.generate_streaming: the run on a stream
generate_streaming(stream) ==
    IF stream.status # T_200
    THEN Faulted(stream, 0, <<>>, T_ErrorColon \o T_OllamaStatus \o stream.status)
    ELSE ReadFrom(stream, 1, <<>>, <<>>)

-----------------------------------------------------------------------------
(* DataAnalysisAgent.process_question_streaming                            *)
(*                                                                         *)
(* The turn is kept as the turn of process_question is, with the sink: the *)
(* calls of callback in order.  Said(text) is one call with the text;      *)
(* Each(x) stands for the calls of "for char in x: callback(char)", one    *)
(* for each element of x in order.                                         *)

T_Thinking ==     <<"T", "h", "i", "n", "k", "i", "n", "g", ".", ".", ".", "\n">>
T_Using ==     <<"U", "s", "i", "n", "g", " ">>
T_EllipsisLine ==     <<".", ".", ".", "\n">>
T_GeneratingBased ==     <<"\n", "G", "e", "n", "e", "r", "a", "t", "i", "n", "g", " ", "a", "n", "s", "w",
      "e", "r", " ", "b", "a", "s", "e", "d", " ", "o", "n", " ", "a", "n", "a", "l",
      "y", "s", "i", "s", ".", ".", ".", "\n", "\n">>
T_Generating ==     <<"\n", "G", "e", "n", "e", "r", "a", "t", "i", "n", "g", " ", "a", "n", "s", "w",
      "e", "r", ".", ".", ".", "\n", "\n">>

Said(text) == [kind |-> "text", of |-> Str(text)]
Each(x) == [kind |-> "each", of |-> x]

\* the turn after callback("Thinking...\n")
NewStreamingTurn ==
    [responses |-> <<>>, decisions |-> <<>>, dispatches |-> <<>>,
     answer |-> None, events |-> <<>>, sink |-> <<Said(T_Thinking)>>]

\* callback(...)
Emit(t, item) == [t EXCEPT !.sink = Append(@, item)]

\* the entry recorded for a decision: tool_name defaults to "Unknown" in
\* the content and in the metadata
StreamDecisionEntry(tool_call) ==
    Entry("agent_decision",
          T_Decided \o PyStr(Get(tool_call, KEY_tool_name, Str(T_Unknown))),
          << [k |-> KEY_tool_name, val |-> Get(tool_call, KEY_tool_name, Str(T_Unknown))],
             [k |-> KEY_tool_input, val |-> Get(tool_call, KEY_tool_input, None)] >>)

\* callback(text) after a tool round, when the round raised nothing
Announced(step, text) ==
    IF step.pc = "raised" THEN step
    ELSE [step EXCEPT !.turn = Emit(@, Said(text))]

\* "for char in final_answer" raises TypeError unless final_answer can be
\* iterated
Iterable(x) == x.t \in {"str", "arr", "obj", "pylist"}

\* "Stream the final answer", record it and return it
StreamAnswer(mem, max, t, final_answer) ==
    IF ~Iterable(final_answer)
    THEN [pc |-> "raised", mem |-> mem, turn |-> t]
    ELSE ReturnAnswer(mem, max, Emit(t, Each(final_answer)), final_answer)

\* the decision is recorded and announced: a real tool is executed and the
\* streaming call is pending, or the answer is streamed and returned
StreamFirstDecision(reg, mem, max, t, resp, tool_call, outcome) ==
    IF NamesRealTool(tool_call)
    THEN Announced(ToolRound(reg, mem, max, t, tool_call, outcome, "await2"),
                   T_GeneratingBased)
    ELSE StreamAnswer(mem, max, Emit(t, Said(T_Generating)),
                      Get(tool_call, KEY_tool_input, Str(resp)))

\* callback(f"Using {tool_name}...\n")
Using(t, tool_name) ==
    Emit([t EXCEPT !.events = Append(@, "agent_decision")],
         Said(T_Using \o PyStr(tool_name) \o T_EllipsisLine))

\* from the first model text to the streaming call or the return
StreamAfterFirstResponse(reg, mem, max, t, resp, tool_call, outcome) ==
    StreamFirstDecision(reg, add_entry(mem, max, StreamDecisionEntry(tool_call)), max,
                        Using(Received(t, resp, tool_call),
                              Get(tool_call, KEY_tool_name, Str(T_Unknown))),
                        resp, tool_call, outcome)

\* the turn after generate_streaming passed what it emitted to callback
Delivered(t, run) ==
    [t EXCEPT !.sink = @ \o [i \in 1..Len(run.emitted) |-> Said(run.emitted[i].text)]]

\* the second decision answered with its tool_input whatever tool it names
StreamAfterSecondResponse_input(mem, max, t, run, final_tool_call) ==
    ReturnAnswer(mem, max, Received(Delivered(t, run), run.returned, final_tool_call),
                 Get(final_tool_call, KEY_tool_input, Str(run.returned)))

\* from the run of generate_streaming to the return: "We'll keep this
\* simple and not do multiple tool calls in the streaming version"
StreamAfterSecondResponse(mem, max, t, run, final_tool_call) ==
    ExtractFinalAnswer(mem, max, Received(Delivered(t, run), run.returned, final_tool_call),
                       run.returned, final_tool_call)

-----------------------------------------------------------------------------
(* SpecParse: parse_tool_call applied to each model text                   *)

InitParse ==
    /\ response \in ModelTexts
    /\ parsed = <<>>
    /\ tools = <<>>
    /\ registrations = <<>>
    /\ last_dispatch = <<>>
    /\ memories = <<>>
    /\ max_entries = MEMORY_SIZE
    /\ csv_metadata = NoMetadata
    /\ recorded = <<>>
    /\ pc = "idle"
    /\ turn = NewTurn
    /\ ToolsIdle

ParseResponse ==
    /\ parsed = <<>>
    /\ parsed' = <<parse_tool_call(response)>>
    /\ UNCHANGED <<response, tools, registrations, last_dispatch, memories, max_entries,
                   csv_metadata, recorded, pc, turn>>
    /\ UNCHANGED tool_vars

NextParse == ParseResponse

SpecParse == InitParse /\ [][NextParse]_vars

-----------------------------------------------------------------------------
(* SpecRegistry: a ToolRegistry under register_tool and execute_tool with  *)
(* names and inputs that are strings                                       *)

\* the number of register_tool calls of a behaviour
MaxRegistrations == 2

RegisteredNames == {T_Query_Database, T_query_database_spaced, T_QUERY_DATABASE, T_Calculator}
DispatchedNames == RegisteredNames \cup {T_Unknown_Tool}
Capabilities == {"f", "g"}
CapabilityOutcomes == {Returns(RES_ok), Raises(T_boom)}

\* ToolRegistry.__init__
InitRegistry ==
    /\ response = <<>>
    /\ parsed = <<>>
    /\ tools = <<>>
    /\ registrations = <<>>
    /\ last_dispatch = <<>>
    /\ memories = <<>>
    /\ max_entries = MEMORY_SIZE
    /\ csv_metadata = NoMetadata
    /\ recorded = <<>>
    /\ pc = "idle"
    /\ turn = NewTurn
    /\ ToolsIdle

RegisterTool ==
    /\ Len(registrations) < MaxRegistrations
    /\ \E name \in RegisteredNames, func \in Capabilities :
          /\ tools' = register_tool(tools, name, func)
          /\ registrations' = Append(registrations, [name |-> name, func |-> func])
    /\ last_dispatch' = <<>>
    /\ UNCHANGED <<response, parsed, memories, max_entries, csv_metadata, recorded, pc, turn>>
    /\ UNCHANGED tool_vars

ExecuteTool ==
    /\ \E name \in DispatchedNames, outcome \in CapabilityOutcomes :
          last_dispatch' =
              << [tool_name |-> name, tool_input |-> Str(T_expr), outcome |-> outcome,
                  returned |-> execute_tool(tools, Str(name), Str(T_expr), outcome)] >>
    /\ UNCHANGED <<response, parsed, tools, registrations, memories, max_entries,
                   csv_metadata, recorded, pc, turn>>
    /\ UNCHANGED tool_vars

NextRegistry == RegisterTool \/ ExecuteTool

SpecRegistry == InitRegistry /\ [][NextRegistry]_vars

-----------------------------------------------------------------------------
(* helpers.calculator: re.sub deletes the characters outside the allowed   *)
(* set, eval evaluates what is left.  eval is modelled on texts without    *)
(* line breaks: integer and decimal literals, + - * / // % **, unary + and *)
(* -, parentheses, the empty tuple () and calls.  A value is a record      *)
(* [k, n, d, msg]: k = "int" (n), "float" (the rational n/d, d > 0, in     *)
(* lowest terms), "tuple" (the empty tuple), "inexact" (a float that is    *)
(* no short decimal) or "exc" (an exception raised while evaluating, with  *)
(* its class in n and str(e) in msg).  str(e) is abbreviated to one text   *)
(* per kind of failure: "invalid syntax (<string>, line 1)" for every      *)
(* SyntaxError, "division by zero" for every ZeroDivisionError, and the    *)
(* texts of a TypeError without the names of the types.                    *)

Abs(n) == IF n < 0 THEN -n ELSE n

RECURSIVE Gcd(_, _)
Gcd(a, b) == IF b = 0 THEN a ELSE Gcd(b, a % b)

RECURSIVE Pow(_, _)
Pow(b, e) == IF e = 0 THEN 1 ELSE b * Pow(b, e - 1)

IntVal(n) == [k |-> "int", n |-> n, d |-> 1, msg |-> <<>>]
Ratio(n, d, g) == [k |-> "float", n |-> n \div g, d |-> d \div g, msg |-> <<>>]
\* the float n/d for d > 0
FloatVal(n, d) == Ratio(n, d, Gcd(Abs(n), d))
TupleVal == [k |-> "tuple", n |-> 0, d |-> 1, msg |-> <<>>]
InexactVal == [k |-> "inexact", n |-> 0, d |-> 1, msg |-> <<>>]
ExcVal(class, msg) == [k |-> "exc", n |-> class, d |-> 1, msg |-> msg]

IsNumber(v) == v.k \in {"int", "float"}

T_division_by_zero ==
    <<"d", "i", "v", "i", "s", "i", "o", "n", " ", "b", "y", " ", "z", "e", "r", "o">>
T_invalid_syntax ==
    <<"i", "n", "v", "a", "l", "i", "d", " ", "s", "y", "n", "t", "a", "x", " ", "(",
      "<", "s", "t", "r", "i", "n", "g", ">", ",", " ", "l", "i", "n", "e", " ", "1",
      ")">>
T_not_callable ==
    <<"o", "b", "j", "e", "c", "t", " ", "i", "s", " ", "n", "o", "t", " ", "c", "a",
      "l", "l", "a", "b", "l", "e">>
T_unsupported_operand ==
    <<"u", "n", "s", "u", "p", "p", "o", "r", "t", "e", "d", " ", "o", "p", "e", "r",
      "a", "n", "d">>

\* floor(a / b) of integers, b # 0
PyFloorDiv(a, b) == IF b > 0 THEN a \div b ELSE (-a) \div (-b)

\* the number a op b, both numbers, the divisor not zero
Arith(op, a, b) ==
    CASE op = "+" -> IF a.k = "int" /\ b.k = "int" THEN IntVal(a.n + b.n)
                     ELSE FloatVal(a.n * b.d + b.n * a.d, a.d * b.d)
      [] op = "-" -> IF a.k = "int" /\ b.k = "int" THEN IntVal(a.n - b.n)
                     ELSE FloatVal(a.n * b.d - b.n * a.d, a.d * b.d)
      [] op = "*" -> IF a.k = "int" /\ b.k = "int" THEN IntVal(a.n * b.n)
                     ELSE FloatVal(a.n * b.n, a.d * b.d)
      [] op = "/" -> IF b.n > 0 THEN FloatVal(a.n * b.d, a.d * b.n)
                     ELSE FloatVal(-(a.n * b.d), -(a.d * b.n))
      [] op = "//" -> IF a.k = "int" /\ b.k = "int" THEN IntVal(PyFloorDiv(a.n, b.n))
                      ELSE FloatVal(PyFloorDiv(a.n * b.d, a.d * b.n), 1)
      [] op = "%" -> IF a.k = "int" /\ b.k = "int"
                     THEN IntVal(a.n - b.n * PyFloorDiv(a.n, b.n))
                     ELSE FloatVal(a.n * b.d - b.n * a.d * PyFloorDiv(a.n * b.d, a.d * b.n),
                                   a.d * b.d)

\* a ** b of numbers
Power(a, b) ==
    IF b.d # 1 THEN InexactVal
    ELSE IF b.n >= 0
    THEN IF a.k = "int" /\ b.k = "int" THEN IntVal(Pow(a.n, b.n))
         ELSE FloatVal(Pow(a.n, b.n), Pow(a.d, b.n))
    ELSE IF a.n = 0
    THEN ExcVal("ZeroDivisionError", T_division_by_zero)
    ELSE IF a.n > 0 THEN FloatVal(Pow(a.d, -b.n), Pow(a.n, -b.n))
    ELSE FloatVal(Pow(-a.d, -b.n), Pow(-a.n, -b.n))

\* the value of a op b: an exception of an operand goes first, the left one
\* before the right one
BinOp(op, a, b) ==
    IF a.k = "exc" THEN a
    ELSE IF b.k = "exc" THEN b
    ELSE IF a.k = "inexact" \/ b.k = "inexact"
    THEN IF a.k = "tuple" \/ b.k = "tuple"
         THEN ExcVal("TypeError", T_unsupported_operand) ELSE InexactVal
    ELSE IF a.k = "tuple" /\ b.k = "tuple"
    THEN IF op = "+" THEN TupleVal ELSE ExcVal("TypeError", T_unsupported_operand)
    ELSE IF a.k = "tuple" \/ b.k = "tuple"
    THEN IF op = "*" /\ "int" \in {a.k, b.k}
         THEN TupleVal ELSE ExcVal("TypeError", T_unsupported_operand)
    ELSE IF op = "**" THEN Power(a, b)
    ELSE IF op \in {"/", "//", "%"} /\ b.n = 0
    THEN ExcVal("ZeroDivisionError", T_division_by_zero)
    ELSE Arith(op, a, b)

\* +a and -a
UnaryOp(op, a) ==
    IF a.k \in {"exc", "inexact"} THEN a
    ELSE IF a.k = "tuple" THEN ExcVal("TypeError", T_unsupported_operand)
    ELSE IF op = "+" THEN a
    ELSE [a EXCEPT !.n = -a.n]

\* callee(arg): no value of these texts is callable
CallOp(callee, arg) ==
    IF callee.k = "exc" THEN callee
    ELSE IF arg.k = "exc" THEN arg
    ELSE ExcVal("TypeError", T_not_callable)

BadExpr == [ok |-> FALSE, pos |-> 0, val |-> TupleVal]
Parsed(pos, val) == [ok |-> TRUE, pos |-> pos, val |-> val]

\* the tokenizer skips blanks and tabs between tokens
RECURSIVE SkipBlank(_, _)
SkipBlank(s, i) == IF At(s, i) \in {" ", "\t"} THEN SkipBlank(s, i + 1) ELSE i

\* the number written by the digits s[i..j-1]
RECURSIVE DigitsValue(_, _, _)
DigitsValue(s, i, j) ==
    IF i >= j THEN 0
    ELSE 10 * DigitsValue(s, i, j - 1)
           + (CHOOSE n \in 0..9 : <<"0", "1", "2", "3", "4", "5", "6", "7", "8", "9">>[n + 1] = s[j - 1])

\* a decimal literal with integer digits s[i..j-1] and fraction digits
\* s[j+1..e-1]
DecimalLiteral(s, i, j, e) ==
    IF e = j + 1 /\ j = i THEN BadExpr
    ELSE Parsed(e, FloatVal(DigitsValue(s, i, j) * Pow(10, e - j - 1) + DigitsValue(s, j + 1, e),
                            Pow(10, e - j - 1)))

\* an integer literal s[i..j-1]: no leading zero unless all digits are zero
IntegerLiteral(s, i, j) ==
    IF j = i THEN BadExpr
    ELSE IF s[i] = "0" /\ DigitsValue(s, i, j) # 0 THEN BadExpr
    ELSE Parsed(j, IntVal(DigitsValue(s, i, j)))

\* a number literal at i, its integer digits ending before j
NumberFrom(s, i, j) ==
    IF At(s, j) = "." THEN DecimalLiteral(s, i, j, DigitRun(s, j + 1))
    ELSE IntegerLiteral(s, i, j)

RECURSIVE ParseSum(_, _)
RECURSIVE ParseFactor(_, _)
RECURSIVE Trailers(_, _)
RECURSIVE SumRest(_, _)
RECURSIVE TermRest(_, _)

\* "(" ... ")" at i: the empty tuple or a parenthesized expression
ParenClose(s, r, j) == IF r.ok /\ At(s, j) = ")" THEN Parsed(j + 1, r.val) ELSE BadExpr
ParenBody(s, r) == IF r.ok THEN ParenClose(s, r, SkipBlank(s, r.pos)) ELSE BadExpr
ParenFrom(s, j) ==
    IF At(s, j) = ")" THEN Parsed(j + 1, TupleVal) ELSE ParenBody(s, ParseSum(s, j))

\* an atom at i: a number or a parenthesized form
ParseAtom(s, i) ==
    IF At(s, i) = "(" THEN ParenFrom(s, SkipBlank(s, i + 1))
    ELSE NumberFrom(s, i, DigitRun(s, i))

\* the call trailers after the primary r
CallDone(s, r, a) ==
    IF a.ok THEN Trailers(s, Parsed(a.pos, CallOp(r.val, a.val))) ELSE BadExpr
TrailerAt(s, r, j) ==
    IF At(s, j) = "(" THEN CallDone(s, r, ParenFrom(s, SkipBlank(s, j + 1)))
    ELSE Parsed(j, r.val)
Trailers(s, r) == IF r.ok THEN TrailerAt(s, r, SkipBlank(s, r.pos)) ELSE BadExpr

\* primary ["**" factor]
PowerApply(base, e) == IF e.ok THEN Parsed(e.pos, BinOp("**", base, e.val)) ELSE BadExpr
PowerAt(s, r, j) ==
    IF At(s, j) = "*" /\ At(s, j + 1) = "*"
    THEN PowerApply(r.val, ParseFactor(s, SkipBlank(s, j + 2)))
    ELSE r
PowerRest(s, r) == IF r.ok THEN PowerAt(s, r, r.pos) ELSE BadExpr
ParsePower(s, i) == PowerRest(s, Trailers(s, ParseAtom(s, i)))

\* ("+" | "-") factor | power
UnaryApply(op, r) == IF r.ok THEN Parsed(r.pos, UnaryOp(op, r.val)) ELSE BadExpr
ParseFactor(s, i) ==
    IF At(s, i) \in {"+", "-"} THEN UnaryApply(At(s, i), ParseFactor(s, SkipBlank(s, i + 1)))
    ELSE ParsePower(s, i)

\* factor (("*" | "/" | "//" | "%") factor)*
TermApply(s, left, op, r) ==
    IF r.ok THEN TermRest(s, Parsed(r.pos, BinOp(op, left, r.val))) ELSE BadExpr
TermAt(s, r, j) ==
    IF At(s, j) = "*" /\ At(s, j + 1) # "*"
    THEN TermApply(s, r.val, "*", ParseFactor(s, SkipBlank(s, j + 1)))
    ELSE IF At(s, j) = "/" /\ At(s, j + 1) = "/"
    THEN TermApply(s, r.val, "//", ParseFactor(s, SkipBlank(s, j + 2)))
    ELSE IF At(s, j) \in {"/", "%"}
    THEN TermApply(s, r.val, At(s, j), ParseFactor(s, SkipBlank(s, j + 1)))
    ELSE Parsed(j, r.val)
TermRest(s, r) == IF r.ok THEN TermAt(s, r, SkipBlank(s, r.pos)) ELSE BadExpr
ParseTerm(s, i) == TermRest(s, ParseFactor(s, i))

\* term (("+" | "-") term)*
SumApply(s, left, op, r) ==
    IF r.ok THEN SumRest(s, Parsed(r.pos, BinOp(op, left, r.val))) ELSE BadExpr
SumAt(s, r, j) ==
    IF At(s, j) \in {"+", "-"}
    THEN SumApply(s, r.val, At(s, j), ParseTerm(s, SkipBlank(s, j + 1)))
    ELSE Parsed(j, r.val)
SumRest(s, r) == IF r.ok THEN SumAt(s, r, SkipBlank(s, r.pos)) ELSE BadExpr
ParseSum(s, i) == SumRest(s, ParseTerm(s, i))

\* eval(s): the value, or the exception raised
Evaluated(s, r) ==
    IF r.ok /\ SkipBlank(s, r.pos) = Len(s) + 1 THEN r.val
    ELSE ExcVal("SyntaxError", T_invalid_syntax)
eval(s) == Evaluated(s, ParseSum(s, SkipBlank(s, 1)))

T_Result ==     <<"R", "e", "s", "u", "l", "t", ":", " ">>
T_ErrorCalculating ==     <<"E", "r", "r", "o", "r", " ", "c", "a", "l", "c", "u", "l", "a", "t", "i", "n",
      "g", " ", "r", "e", "s", "u", "l", "t", ":", " ">>

\* the characters re.sub(r'[^0-9+\-*/().%\s]', '', expression) keeps; of the
\* characters \s matches, the blank, \t, \n, \r and \f are modelled
AllowedChars ==
    Digits \cup {"+", "-", "*", "/", "(", ")", ".", "%"} \cup {" ", "\t", "\n", "\r", "\f"}

Sanitized_keeping_separator(expression) ==
    SelectSeq(expression, LAMBDA c : c \in AllowedChars \cup {";"})

\* sanitized = re.sub(r'[^0-9+\-*/().%\s]', '', expression)
Sanitized(expression) == SelectSeq(expression, LAMBDA c : c \in AllowedChars)

IntText(n) == IF n < 0 THEN <<"-">> \o NatText(-n) ELSE NatText(n)

\* the k digits of the fraction f / 10^k
RECURSIVE FractionText(_, _)
FractionText(f, k) ==
    IF k = 0 THEN <<>> ELSE Append(FractionText(f \div 10, k - 1), NatText(f % 10)[1])

\* the number of decimals of the float n/d: the least k in 1..4 with d | 10^k,
\* 0 when there is none
Decimals(d) ==
    IF \E k \in 1..4 : Pow(10, k) % d = 0
    THEN SetMin({k \in 1..4 : Pow(10, k) % d = 0}) ELSE 0

T_float == <<"<", "f", "l", "o", "a", "t", ">">>

\* repr of the float with sign and k decimals, q being its magnitude in
\* units of 10^-k
ScaledText(negative, q, k) ==
    (IF negative THEN <<"-">> ELSE <<>>)
      \o NatText(q \div Pow(10, k)) \o <<".">> \o FractionText(q % Pow(10, k), k)

\* repr of the float n/d with k decimals
DecimalText(n, d, k) ==
    IF k = 0 THEN T_float ELSE ScaledText(n < 0, (Abs(n) * Pow(10, k)) \div d, k)

\* str(result)
ValueText(v) ==
    CASE v.k = "int" -> IntText(v.n)
      [] v.k = "float" -> DecimalText(v.n, v.d, Decimals(v.d))
      [] v.k = "tuple" -> <<"(", ")">>
      [] OTHER -> T_float

Calculated_unhandled(result) == T_Result \o ValueText(result)

\* the try block of calculator and its except clause, result being the
\* outcome of eval(sanitized)
Calculated(result) ==
    IF result.k = "exc" THEN T_ErrorCalculating \o result.msg
    ELSE T_Result \o ValueText(result)

calculator(expression) == Calculated(eval(Sanitized(expression)))

KEY_expression ==     <<"e", "x", "p", "r", "e", "s", "s", "i", "o", "n">>

\* create_standard_tools: the capability registered as "Calculator"
calculator_tool(expression) ==
    << [k |-> KEY_result, val |-> Str(calculator(expression))],
       [k |-> KEY_expression, val |-> Str(expression)] >>

-----------------------------------------------------------------------------
(* The dataset (CSVLoader.df) and CSVLoader.execute_pandas_operation       *)
(*                                                                         *)
(* A DataFrame is a record [columns, dtypes, rows]: the column labels, the *)
(* dtype of each column ("int64" or "object") and the rows, each the       *)
(* sequence of its cells in column order.  A cell is [k |-> "int", n, s]   *)
(* or [k |-> "str", n, s].  The value of a pandas call is kept as the call *)
(* itself, [method, column, agg] on the frame it was made on.              *)

IntCell(n) == [k |-> "int", n |-> n, s |-> <<>>]
StrCell(s) == [k |-> "str", n |-> 0, s |-> s]
DataFrame(columns, dtypes, rows) == [columns |-> columns, dtypes |-> dtypes, rows |-> rows]

\* s.split(sep): the pieces of s between the occurrences of sep
RECURSIVE SplitFrom(_, _, _)
SplitFrom(s, sep, i) ==
    IF i < 0 THEN <<s>>
    ELSE <<Slice(s, 0, i)>> \o SplitFrom(Slice(s, i + Len(sep), Len(s)), sep,
                                          Find(Slice(s, i + Len(sep), Len(s)), sep, 0))
Split(s, sep) == SplitFrom(s, sep, Find(s, sep, 0))

\* s.startswith(prefix)
StartsWith(s, prefix) == Len(prefix) <= Len(s) /\ SubSeq(s, 1, Len(prefix)) = prefix

\* s.endswith(suffix)
EndsWith(s, suffix) ==
    Len(suffix) <= Len(s) /\ SubSeq(s, Len(s) - Len(suffix) + 1, Len(s)) = suffix

\* s.strip(chars)
RECURSIVE StripChars(_, _)
StripChars(s, chars) ==
    IF s # <<>> /\ Head(s) \in chars THEN StripChars(Tail(s), chars)
    ELSE IF s # <<>> /\ s[Len(s)] \in chars THEN StripChars(SubSeq(s, 1, Len(s) - 1), chars)
    ELSE s

\* s.isalnum(), for the letters and digits of ASCII
IsAlnum(s) ==
    /\ s # <<>>
    /\ \A i \in 1..Len(s) :
          \/ s[i] \in Digits
          \/ \E j \in 1..Len(UPPER) : s[i] = UPPER[j] \/ s[i] = LOWER[j]

T_df ==     <<"d", "f">>
T_df_head ==     <<"d", "f", ".", "h", "e", "a", "d", "(", ")">>
T_df_tail ==     <<"d", "f", ".", "t", "a", "i", "l", "(", ")">>
T_df_describe ==     <<"d", "f", ".", "d", "e", "s", "c", "r", "i", "b", "e", "(", ")">>
T_df_info ==     <<"d", "f", ".", "i", "n", "f", "o", "(", ")">>
T_df_isna_sum ==     <<"d", "f", ".", "i", "s", "n", "a", "(", ")", ".", "s", "u", "m", "(", ")">>
T_df_shape ==     <<"d", "f", ".", "s", "h", "a", "p", "e">>
T_df_columns ==     <<"d", "f", ".", "c", "o", "l", "u", "m", "n", "s">>
T_df_dtypes ==     <<"d", "f", ".", "d", "t", "y", "p", "e", "s">>
T_value_counts ==     <<"v", "a", "l", "u", "e", "_", "c", "o", "u", "n", "t", "s">>
T_mean ==     <<"m", "e", "a", "n">>
T_median ==     <<"m", "e", "d", "i", "a", "n">>
T_min ==     <<"m", "i", "n">>
T_max ==     <<"m", "a", "x">>
T_sum ==     <<"s", "u", "m">>
T_count ==     <<"c", "o", "u", "n", "t">>
T_groupby ==     <<"g", "r", "o", "u", "p", "b", "y">>
T_df_groupby ==     <<"d", "f", ".", "g", "r", "o", "u", "p", "b", "y", "(">>
T_NoDataLoaded ==     <<"N", "o", " ", "d", "a", "t", "a", " ", "l", "o", "a", "d", "e", "d", ".">>
T_SuccessfullyExecuted ==     <<"S", "u", "c", "c", "e", "s", "s", "f", "u", "l", "l", "y", " ", "e", "x", "e",
      "c", "u", "t", "e", "d", ":", " ">>
T_SuccessfullyGroupby ==     <<"S", "u", "c", "c", "e", "s", "s", "f", "u", "l", "l", "y", " ", "e", "x", "e",
      "c", "u", "t", "e", "d", " ", "g", "r", "o", "u", "p", "b", "y", ":", " ">>
T_NotAllowed ==     <<"O", "p", "e", "r", "a", "t", "i", "o", "n", " ", "n", "o", "t", " ", "a", "l",
      "l", "o", "w", "e", "d", " ", "f", "o", "r", " ", "s", "e", "c", "u", "r", "i",
      "t", "y", " ", "r", "e", "a", "s", "o", "n", "s", ":", " ">>
T_NoCsvLoaded ==     <<"N", "o", " ", "C", "S", "V", " ", "d", "a", "t", "a", " ", "l", "o", "a", "d",
      "e", "d">>
T_ErrorAnalyzing ==     <<"E", "r", "r", "o", "r", " ", "a", "n", "a", "l", "y", "z", "i", "n", "g", " ",
      "C", "S", "V", ":", " ">>
KEY_operation ==     <<"o", "p", "e", "r", "a", "t", "i", "o", "n">>
KEY_description ==     <<"d", "e", "s", "c", "r", "i", "p", "t", "i", "o", "n">>

\* a pandas call on the frame df, and its value
PandasCall(method, column, agg) == [method |-> method, column |-> column, agg |-> agg]
PandasValue(call, df) == [t |-> "pandas", v |-> <<>>, d |-> <<[call |-> call, of |-> df]>>]

\* col_str of a column label
ColStr(col) == IF ~IsAlnum(col) THEN <<"'">> \o col \o <<"'">> ELSE col

\* the key f"df[{col_str}].<method>()"
ColumnKey(col, method) ==
    T_df \o <<"[">> \o ColStr(col) \o <<"]", ".">> \o method \o <<"(", ")">>

ColumnEntry(col, method) == [k |-> ColumnKey(col, method), val |-> PandasCall(method, col, <<>>)]

\* the entries added for one column: value_counts, and the statistics of a
\* numeric column
ColumnOperations(col, dtype) ==
    <<ColumnEntry(col, T_value_counts)>>
      \o (IF dtype \in {"int64", "float64", "int32", "float32"}
          THEN <<ColumnEntry(col, T_mean), ColumnEntry(col, T_median), ColumnEntry(col, T_min),
                 ColumnEntry(col, T_max), ColumnEntry(col, T_sum)>>
          ELSE <<>>)

\* safe_operations after the first i columns were added
RECURSIVE SafeOperationsUpTo(_, _)
SafeOperationsUpTo(df, i) ==
    IF i = 0
    THEN << [k |-> T_df_head, val |-> PandasCall(<<"h", "e", "a", "d">>, <<>>, <<>>)],
            [k |-> T_df_tail, val |-> PandasCall(<<"t", "a", "i", "l">>, <<>>, <<>>)],
            [k |-> T_df_describe,
             val |-> PandasCall(<<"d", "e", "s", "c", "r", "i", "b", "e">>, <<>>, <<>>)],
            [k |-> T_df_info, val |-> PandasCall(<<"i", "n", "f", "o">>, <<>>, <<>>)],
            [k |-> T_df_isna_sum,
             val |-> PandasCall(<<"i", "s", "n", "a", ".", "s", "u", "m">>, <<>>, <<>>)],
            [k |-> T_df_shape, val |-> PandasCall(<<"s", "h", "a", "p", "e">>, <<>>, <<>>)],
            [k |-> T_df_columns,
             val |-> PandasCall(<<"c", "o", "l", "u", "m", "n", "s">>, <<>>, <<>>)],
            [k |-> T_df_dtypes,
             val |-> PandasCall(<<"d", "t", "y", "p", "e", "s">>, <<>>, <<>>)] >>
    ELSE SafeOperationsUpTo(df, i - 1) \o ColumnOperations(df.columns[i], df.dtypes[i])

\* safe_operations, built from the columns of df
SafeOperations(df) == SafeOperationsUpTo(df, Len(df.columns))

\* what execute_pandas_operation returns, with the pandas calls it made
Evaluation(result, description, executed) ==
    [result |-> result, description |-> description, executed |-> executed]

\* the groupby branch, once the aggregate is an allowed one: the call is
\* made; it raises KeyError for a label that is no column, and fails tells
\* whether pandas raises on the data
Grouped(df, operation, group_col, agg_func, fails) ==
    IF \A i \in 1..Len(df.columns) : df.columns[i] # group_col
    THEN Evaluation(None, T_ErrorColon \o <<"'">> \o group_col \o <<"'">>,
                    <<PandasCall(T_groupby, group_col, agg_func)>>)
    ELSE IF fails
    THEN Evaluation(None, T_ErrorColon \o T_boom, <<PandasCall(T_groupby, group_col, agg_func)>>)
    ELSE Evaluation(PandasValue(PandasCall(T_groupby, group_col, agg_func), df),
                    T_SuccessfullyGroupby \o operation,
                    <<PandasCall(T_groupby, group_col, agg_func)>>)

NotAllowed(operation) == Evaluation(None, T_NotAllowed \o operation, <<>>)

\* the groupby branch on the pieces of operation.split(".")
GroupbyParts(df, operation, parts, fails) ==
    IF Len(parts) >= 3 /\ parts[1] = T_df /\ StartsWith(parts[2], T_groupby)
    THEN IF Split(parts[3], <<"(">>)[1] \in {T_mean, T_sum, T_count, T_min, T_max}
         THEN Grouped(df, operation,
                      StripChars(Split(Split(parts[2], <<"(">>)[2], <<")">>)[1], {"'", "\""}),
                      Split(parts[3], <<"(">>)[1], fails)
         ELSE NotAllowed(operation)
    ELSE NotAllowed(operation)

Allowed_anything(df, operation, fails) ==
    Evaluation(PandasValue(PandasCall(operation, <<>>, <<>>), df),
               T_SuccessfullyExecuted \o operation, <<PandasCall(operation, <<>>, <<>>)>>)

\* the try block, operation being stripped
Allowed(df, operation, fails) ==
    IF Has(SafeOperations(df), operation)
    THEN Evaluation(IF operation = T_df_info THEN None
                    ELSE PandasValue(Lookup(SafeOperations(df), operation), df),
                    T_SuccessfullyExecuted \o operation,
                    <<Lookup(SafeOperations(df), operation)>>)
    ELSE IF StartsWith(operation, T_df_groupby)
    THEN GroupbyParts(df, operation, Split(operation, <<".">>), fails)
    ELSE NotAllowed(operation)

\* CSVLoader.execute_pandas_operation on the frame held (<<>> is None)
execute_pandas_operation(held, operation, fails) ==
    IF held = <<>> THEN Evaluation(None, T_NoDataLoaded, <<>>)
    ELSE Allowed(held[1], Strip(operation), fails)

\* the dict analyze_csv_tool builds from an evaluation
Analysis(operation, evaluation) ==
    << [k |-> KEY_operation, val |-> Str(operation)],
       [k |-> KEY_result, val |-> evaluation.result],
       [k |-> KEY_description, val |-> Str(evaluation.description)] >>

\* create_standard_tools: the capability registered as "Analyze_CSV"
analyze_csv_tool(held, operation, fails) ==
    IF held = <<>> THEN << [k |-> KEY_error, val |-> Str(T_NoCsvLoaded)] >>
    ELSE Analysis(operation, execute_pandas_operation(held, operation, fails))

T_name == <<"n", "a", "m", "e">>
T_age == <<"a", "g", "e">>
T_city == <<"c", "i", "t", "y">>
T_unit_price == <<"u", "n", "i", "t", " ", "p", "r", "i", "c", "e">>
T_qty == <<"q", "t", "y">>
T_Name == <<"N", "a", "m", "e">>
T_average_age == <<"a", "v", "e", "r", "a", "g", "e", "_", "a", "g", "e">>

-----------------------------------------------------------------------------
(* create_standard_tools.query_database_tool: the filter-query interpreter *)
(*                                                                         *)
(* A value compared with the cells is [k |-> "num", n, d, s] (the float    *)
(* n/d) or [k |-> "str", n, d, s].  float(value_str) is modelled for the   *)
(* forms [+-]digits[.digits]; the other texts float accepts (exponents,    *)
(* inf, nan, underscores) do not occur in the queries.                     *)

T_select ==     <<"s", "e", "l", "e", "c", "t">>
T_from ==     <<"f", "r", "o", "m">>
T_where ==     <<"w", "h", "e", "r", "e">>
T_avg ==     <<"a", "v", "g">>
T_NoCsvOrDb ==     <<"N", "o", " ", "C", "S", "V", " ", "d", "a", "t", "a", " ", "l", "o", "a", "d",
      "e", "d", " ", "o", "r", " ", "d", "a", "t", "a", "b", "a", "s", "e", " ", "n",
      "o", "t", " ", "a", "v", "a", "i", "l", "a", "b", "l", "e">>
T_CouldNotParse ==     <<"C", "o", "u", "l", "d", " ", "n", "o", "t", " ", "p", "a", "r", "s", "e", " ",
      "S", "Q", "L", " ", "q", "u", "e", "r", "y", ".", " ", "P", "l", "e", "a", "s",
      "e", " ", "u", "s", "e", " ", "a", " ", "s", "i", "m", "p", "l", "e", " ", "'",
      "S", "E", "L", "E", "C", "T", " ", ".", ".", ".", " ", "F", "R", "O", "M", " ",
      ".", ".", ".", " ", "W", "H", "E", "R", "E", " ", ".", ".", ".", "'", " ", "f",
      "o", "r", "m", "a", "t", ".">>
T_ErrorExecutingQuery ==     <<"E", "r", "r", "o", "r", " ", "e", "x", "e", "c", "u", "t", "i", "n", "g", " ",
      "q", "u", "e", "r", "y", ":", " ">>
KEY_query ==     <<"q", "u", "e", "r", "y">>
KEY_total_rows ==     <<"t", "o", "t", "a", "l", "_", "r", "o", "w", "s">>
KEY_returned_rows ==     <<"r", "e", "t", "u", "r", "n", "e", "d", "_", "r", "o", "w", "s">>

\* result_df = df.head(50)
ROW_LIMIT == 50

\* sub in s
Contains(s, sub) == Find(s, sub, 0) >= 0

NumValue(n, d) == [k |-> "num", n |-> n, d |-> d, s |-> <<>>]
StrValue(s) == [k |-> "str", n |-> 0, d |-> 1, s |-> s]

\* whether float(s) succeeds, s[i..] being the text after the sign and j
\* the end of its first digits
FloatForm(s, i, j) ==
    \/ j > i /\ j = Len(s) + 1
    \/ /\ At(s, j) = "."
       /\ DigitRun(s, j + 1) = Len(s) + 1
       /\ j > i \/ Len(s) > j
IsFloatText(s, i) == FloatForm(s, i, DigitRun(s, i))

\* the value float(s) of such a text
FloatOf(s, i, j, negative) ==
    NumValue((IF negative THEN -1 ELSE 1)
               * (DigitsValue(s, i, j) * Pow(10, SetMax({Len(s) - j, 0}))
                    + DigitsValue(s, j + 1, Len(s) + 1)),
             Pow(10, SetMax({Len(s) - j, 0})))

\* try: value = float(value_str) except: value = value_str
FloatOrText(s) ==
    IF At(s, 1) \in {"+", "-"} /\ IsFloatText(s, 2)
    THEN FloatOf(s, 2, DigitRun(s, 2), At(s, 1) = "-")
    ELSE IF IsFloatText(s, 1) THEN FloatOf(s, 1, DigitRun(s, 1), FALSE)
    ELSE StrValue(s)

\* the value of the condition, value_str being the stripped text after the
\* first "="
ConditionValue(value_str) ==
    IF StartsWith(value_str, <<"'">>) /\ EndsWith(value_str, <<"'">>)
    THEN StrValue(Slice(value_str, 1, Len(value_str) - 1))
    ELSE FloatOrText(value_str)

\* cell == value, as the comparison of a column with a scalar decides it
CellEquals(cell, value) ==
    IF cell.k = "int" THEN value.k = "num" /\ cell.n * value.d = value.n
    ELSE value.k = "str" /\ cell.s = value.s

\* the index of the column labelled col, 0 when there is none
ColumnIndex(df, col) ==
    IF \E i \in 1..Len(df.columns) : df.columns[i] = col
    THEN SetMin({i \in 1..Len(df.columns) : df.columns[i] = col}) ELSE 0

\* df[df[column] == value], column being the i-th
Keep(df, i, value) ==
    [df EXCEPT !.rows = SelectSeq(df.rows, LAMBDA row : CellEquals(row[i], value))]

\* whether the where clause holds an equality on the column
HasEquality(where_clause, column) ==
    /\ Contains(where_clause, column)
    /\ \/ Contains(where_clause, column \o <<" ", "=">>)
       \/ Contains(where_clause, column \o <<"=">>)

\* the loop over df.columns from the i-th column on
RECURSIVE FilterFrom(_, _, _, _)
FilterFrom(df, where_clause, value, i) ==
    IF i > Len(df.columns) THEN df
    ELSE FilterFrom(IF HasEquality(where_clause, df.columns[i]) THEN Keep(df, i, value) ELSE df,
                    where_clause, value, i + 1)

\* the WHERE filtering; an empty clause filters nothing
Filtered(df, where_clause) ==
    IF where_clause = <<>> \/ ~Contains(where_clause, <<"=">>) THEN df
    ELSE FilterFrom(df, where_clause,
                    ConditionValue(Strip(Split(where_clause, <<"=">>)[2])), 1)

\* where_part, <<>> when the query holds no "where"
WhereClause(query) ==
    IF Contains(query, T_where) THEN Strip(Split(query, T_where)[2]) ELSE <<>>

\* [col.strip() for col in select_part.split(",")]
RECURSIVE StripAll(_)
StripAll(pieces) ==
    IF pieces = <<>> THEN <<>> ELSE <<Strip(Head(pieces))>> \o StripAll(Tail(pieces))
SelectColumns(select_part) == StripAll(Split(select_part, <<",">>))

\* df[valid_cols]
Project(df, valid_cols) ==
    [columns |-> valid_cols,
     dtypes |-> [j \in 1..Len(valid_cols) |-> df.dtypes[ColumnIndex(df, valid_cols[j])]],
     rows |-> [r \in 1..Len(df.rows) |->
                 [j \in 1..Len(valid_cols) |-> df.rows[r][ColumnIndex(df, valid_cols[j])]]]]

\* the Python value of a cell
CellValue(cell) == IF cell.k = "int" THEN Value("num", IntText(cell.n)) ELSE Str(cell.s)

\* one record of to_dict(orient="records"): a later column replaces an
\* earlier one of the same label
RECURSIVE RowRecord(_, _, _)
RowRecord(columns, row, j) ==
    IF j = 0 THEN EmptyDict
    ELSE DictSet(RowRecord(columns, row, j - 1), columns[j], CellValue(row[j]))

\* df.head(ROW_LIMIT).to_dict(orient="records")
Records(df) ==
    [r \in 1..SetMin({Len(df.rows), ROW_LIMIT}) |-> RowRecord(df.columns, df.rows[r], Len(df.columns))]

RowList(records) == [t |-> "rows", v |-> <<>>, d |-> records]

\* the dict returned by a query that is no aggregation
\* the dict with every row of the frame in its result
RowsResult_unlimited(query, df) ==
    << [k |-> KEY_query, val |-> Str(query)],
       [k |-> KEY_result,
        val |-> RowList([r \in 1..Len(df.rows) |->
                            RowRecord(df.columns, df.rows[r], Len(df.columns))])],
       [k |-> KEY_total_rows, val |-> Value("num", NatText(Len(df.rows)))],
       [k |-> KEY_returned_rows, val |-> Value("num", NatText(Len(df.rows)))] >>

RowsResult(query, df) ==
    << [k |-> KEY_query, val |-> Str(query)],
       [k |-> KEY_result, val |-> RowList(Records(df))],
       [k |-> KEY_total_rows, val |-> Value("num", NatText(Len(df.rows)))],
       [k |-> KEY_returned_rows, val |-> Value("num", NatText(SetMin({Len(df.rows), ROW_LIMIT})))] >>

ErrorResult(msg) == << [k |-> KEY_error, val |-> Str(msg)] >>

\* the order of the characters of the labels and cells
CHAR_ORDER ==
    <<" ", "0", "1", "2", "3", "4", "5", "6", "7", "8", "9">> \o UPPER \o <<"_">> \o LOWER
CharRank(c) ==
    IF \E i \in 1..Len(CHAR_ORDER) : CHAR_ORDER[i] = c
    THEN CHOOSE i \in 1..Len(CHAR_ORDER) : CHAR_ORDER[i] = c ELSE 0

\* a < b for str
RECURSIVE StrLess(_, _)
StrLess(a, b) ==
    IF b = <<>> THEN FALSE
    ELSE IF a = <<>> THEN TRUE
    ELSE IF Head(a) = Head(b) THEN StrLess(Tail(a), Tail(b))
    ELSE CharRank(Head(a)) < CharRank(Head(b))

\* the cells of the i-th column
ColumnCells(df, i) == [r \in 1..Len(df.rows) |-> df.rows[r][i]]

RECURSIVE SumCells(_)
SumCells(cells) == IF cells = <<>> THEN 0 ELSE Head(cells).n + SumCells(Tail(cells))

RECURSIVE JoinCells(_)
JoinCells(cells) == IF cells = <<>> THEN <<>> ELSE Head(cells).s \o JoinCells(Tail(cells))

T_nan == <<"n", "a", "n">>
\* str(e) of the TypeError of a mean over text, abbreviated
T_could_not_convert ==     <<"C", "o", "u", "l", "d", " ", "n", "o", "t", " ", "c", "o", "n", "v", "e", "r",
      "t", " ", "s", "t", "r", "i", "n", "g", " ", "t", "o", " ", "n", "u", "m", "e",
      "r", "i", "c">>

Computed(value) == [raised |-> FALSE, value |-> value, msg |-> <<>>]
Raised(msg) == [raised |-> TRUE, value |-> EmptyDict, msg |-> msg]

\* df[col].sum(), .mean(), .min(), .max() on the cells of a column
SeriesAggregate(func, cells, dtype) ==
    IF func = T_sum
    THEN IF dtype = "int64" THEN Computed(Value("num", IntText(SumCells(cells))))
         ELSE IF cells = <<>> THEN Computed(Value("num", <<"0">>))
         ELSE Computed(Str(JoinCells(cells)))
    ELSE IF func = T_avg
    THEN IF dtype # "int64" /\ cells # <<>> THEN Raised(T_could_not_convert)
         ELSE IF cells = <<>> THEN Computed(Value("num", T_nan))
         ELSE Computed(Value("num", ValueText(FloatVal(SumCells(cells), Len(cells)))))
    ELSE IF cells = <<>> THEN Computed(Value("num", T_nan))
    ELSE IF dtype = "int64"
    THEN Computed(Value("num", IntText(
             IF func = T_min THEN SetMin({cells[r].n : r \in 1..Len(cells)})
             ELSE SetMax({cells[r].n : r \in 1..Len(cells)}))))
    ELSE Computed(Str(
             IF func = T_min
             THEN CHOOSE x \in {cells[r].s : r \in 1..Len(cells)} :
                     \A y \in {cells[r].s : r \in 1..Len(cells)} : ~StrLess(y, x)
             ELSE CHOOSE x \in {cells[r].s : r \in 1..Len(cells)} :
                     \A y \in {cells[r].s : r \in 1..Len(cells)} : ~StrLess(x, y)))

\* the value assigned to result[col_expr] for func; df[col] raises KeyError
\* for a label that is no column
AggregateValue(func, df, col, i) ==
    IF func = T_count THEN Computed(Value("num", NatText(Len(df.rows))))
    ELSE IF i = 0 THEN Raised(<<"'">> \o col \o <<"'">>)
    ELSE SeriesAggregate(func, ColumnCells(df, i), df.dtypes[i])

\* the aggregate functions, in the order of agg_funcs
AggFuncs == <<T_count, T_sum, T_avg, T_min, T_max>>

\* the column named in col_expr
AggColumn(col_expr) == Strip(Split(Split(col_expr, <<"(">>)[2], <<")">>)[1])

\* the two loops of the aggregation, from the c-th expression and the f-th
\* function on; acc is the result so far, or what was raised
RECURSIVE AggregateFrom(_, _, _, _, _)
AggAssign(df, columns, c, f, acc, v) ==
    IF v.raised THEN v
    ELSE AggregateFrom(df, columns, c, f + 1,
                       [acc EXCEPT !.value = DictSet(acc.value, columns[c], v.value)])
AggregateFrom(df, columns, c, f, acc) ==
    IF c > Len(columns) THEN acc
    ELSE IF f > Len(AggFuncs) THEN AggregateFrom(df, columns, c + 1, 1, acc)
    ELSE IF Contains(columns[c], AggFuncs[f] \o <<"(">>)
    THEN AggAssign(df, columns, c, f, acc,
                   AggregateValue(AggFuncs[f], df, AggColumn(columns[c]),
                                  ColumnIndex(df, AggColumn(columns[c]))))
    ELSE AggregateFrom(df, columns, c, f + 1, acc)

AggregateResult_unhandled(agg) == agg.value

\* the dict returned by an aggregation, or the error dict of the except
\* clause
AggregateResult(agg) ==
    IF agg.raised THEN ErrorResult(T_ErrorExecutingQuery \o agg.msg) ELSE agg.value

\* has_agg
HasAgg(select_part) ==
    \E f \in 1..Len(AggFuncs) : Contains(select_part, AggFuncs[f] \o <<"(">>)

\* [col for col in columns if col in df.columns]
ValidCols(df, columns) == SelectSeq(columns, LAMBDA col : ColumnIndex(df, col) # 0)

\* the selection on the filtered frame
Selected(query, select_part, df) ==
    IF ~Contains(select_part, <<"*">>)
    THEN IF HasAgg(select_part)
         THEN AggregateResult(AggregateFrom(df, SelectColumns(select_part), 1, 1,
                                            Computed(EmptyDict)))
         ELSE IF ValidCols(df, SelectColumns(select_part)) # <<>>
         THEN RowsResult(query, Project(df, ValidCols(df, SelectColumns(select_part))))
         ELSE RowsResult(query, df)
    ELSE RowsResult(query, df)

\* the try block on the lowered query
Interpreted(df, query) ==
    IF Contains(query, T_select) /\ Contains(query, T_from)
    THEN Selected(query, Strip(Replace(Split(query, T_from)[1], T_select, <<>>)),
                  Filtered(df, WhereClause(query)))
    ELSE ErrorResult(T_CouldNotParse)

\* create_standard_tools: the capability registered as "Query_Database"
query_database_tool(held, query) ==
    IF held = <<>> THEN ErrorResult(T_NoCsvOrDb) ELSE Interpreted(held[1], Lower(query))

-----------------------------------------------------------------------------
(* SpecCalc: the Calculator capability called with arithmetic expressions  *)
(* to which text is appended                                               *)

\* the agent, with no turn started
AgentIdle ==
    /\ response = <<>>
    /\ parsed = <<>>
    /\ tools = StandardTools
    /\ registrations = <<>>
    /\ last_dispatch = <<>>
    /\ memories = <<>>
    /\ max_entries = MEMORY_SIZE
    /\ csv_metadata = NoMetadata
    /\ recorded = <<>>
    /\ pc = "idle"
    /\ turn = NewTurn

\* arithmetic expressions, well formed and not
Expressions ==
    { <<"2", "+", "2", "*", "3">>,
      <<"2", "+", "2">>,
      <<"8", "/", "2">>,
      <<"7", "%", "-", "4">>,
      <<"-", "7", "/", "/", "2">>,
      <<"2", "*", "*", "3", "*", "*", "2">>,
      <<"(", "1", "+", "2", ")", "*", "3">>,
      <<"1", "0", "/", "4">>,
      <<"1", "/", "0">>,
      <<"2", "(", "3", ")">>,
      <<"(", ")">>,
      <<"0", "1">>,
      <<"1", ".", "5", "+", ".", "5">>,
      <<" ", "2", " ", "*", " ", "3">>,
      <<"2", "*", "*", "-", "1">>,
      <<>>,
      <<"2", " ", "3">>,
      <<"(", "2">>,
      <<"9", "%", "0">>,
      <<"0", ".", "2", "5", "*", "4">>,
      <<"2", "\t", "+", "2">>,
      <<"7", ".", "5", "/", "/", "2">>,
      <<"-", "2", "*", "*", "2">>,
      <<"3", "*", "(", ")">> }
\* what is appended to an expression
Appended ==
    { <<>>,
      <<";", " ", "r", "m", " ", "-", "r", "f", " ", "/">>,
      <<";", " ", "d", "r", "o", "p">>,
      <<";", "x">>,
      <<" ", "#", " ", "n", "o", "t", "e">>,
      <<"a", "b", "c">>,
      <<";", " ", "i", "m", "p", "o", "r", "t", " ", "o", "s">>,
      <<";", "-", "1">>,
      <<";", " ", "1">>,
      <<" ", "=", " ", "x">> }

CalcInputs == {e \o a : e \in Expressions, a \in Appended}

InitCalc ==
    /\ AgentIdle
    /\ ToolsIdle

\* Calculator is called with the expression x: sanitized is the text handed
\* to eval, returned is what calculator_tool returns
Calculate ==
    /\ \E x \in CalcInputs :
          /\ calc_input' = x
          /\ calculated' = << [sanitized |-> Sanitized(x), returned |-> calculator_tool(x)] >>
    /\ UNCHANGED <<agent_vars, data_vars, stream_vars, session_vars>>

NextCalc == Calculate

SpecCalc == InitCalc /\ [][NextCalc]_vars

-----------------------------------------------------------------------------
(* SpecCsv: the capabilities Analyze_CSV and Query_Database on the dataset  *)
(* bound to the registry                                                   *)

\* the table of the specification's example, one with a label that is not
\* alphanumeric, and one with a capital in a label and a label that holds
\* another
People ==
    DataFrame(<<T_name, T_age>>, <<"object", "int64">>,
              << <<StrCell(<<"A">>), IntCell(30)>>, <<StrCell(<<"B">>), IntCell(20)>> >>)
Sales ==
    DataFrame(<<T_city, T_unit_price, T_qty>>, <<"object", "int64", "int64">>,
              << <<StrCell(<<"X">>), IntCell(5), IntCell(1)>>,
                 <<StrCell(<<"Y">>), IntCell(5), IntCell(2)>>,
                 <<StrCell(<<"X">>), IntCell(7), IntCell(3)>> >>)
Staff ==
    DataFrame(<<T_Name, T_age, T_average_age>>, <<"object", "int64", "int64">>,
              << <<StrCell(<<"A">>), IntCell(30), IntCell(20)>>,
                 <<StrCell(<<"a">>), IntCell(20), IntCell(30)>> >>)
\* a table of more rows than a query returns: CROWD_ROWS rows named by
\* their number, all of age 30 but the second, which is 20
CROWD_ROWS == 52
Crowd ==
    DataFrame(<<T_name, T_age>>, <<"object", "int64">>,
              [r \in 1..CROWD_ROWS |-> <<StrCell(NatText(r)), IntCell(IF r = 2 THEN 20 ELSE 30)>>])
Frames == {People, Sales, Staff, Crowd}

\* operation texts handed to Analyze_CSV
Operations ==
    { <<"d", "f", ".", "h", "e", "a", "d", "(", ")">>,
      <<" ", "d", "f", ".", "s", "h", "a", "p", "e", " ">>,
      <<"d", "f", ".", "c", "o", "l", "u", "m", "n", "s">>,
      <<"d", "f", ".", "d", "t", "y", "p", "e", "s">>,
      <<"d", "f", ".", "d", "e", "s", "c", "r", "i", "b", "e", "(", ")">>,
      <<"d", "f", ".", "i", "n", "f", "o", "(", ")">>,
      <<"d", "f", ".", "t", "a", "i", "l", "(", ")">>,
      <<"d", "f", ".", "i", "s", "n", "a", "(", ")", ".", "s", "u", "m", "(", ")">>,
      <<"d", "f", "[", "a", "g", "e", "]", ".", "m", "e", "a", "n", "(", ")">>,
      <<"d", "f", "[", "'", "a", "g", "e", "'", "]", ".", "m", "e", "a", "n", "(", ")">>,
      <<"d", "f", "[", "'", "u", "n", "i", "t", " ", "p", "r", "i", "c", "e", "'", "]", ".",
      "s", "u", "m", "(", ")">>,
      <<"d", "f", "[", "c", "i", "t", "y", "]", ".", "v", "a", "l", "u", "e", "_", "c", "o",
      "u", "n", "t", "s", "(", ")">>,
      <<"d", "f", "[", "c", "i", "t", "y", "]", ".", "m", "e", "a", "n", "(", ")">>,
      <<"d", "f", "[", "n", "a", "m", "e", "]", ".", "v", "a", "l", "u", "e", "_", "c", "o",
      "u", "n", "t", "s", "(", ")">>,
      <<"d", "f", ".", "g", "r", "o", "u", "p", "b", "y", "(", "'", "c", "i", "t", "y", "'",
      ")", ".", "m", "e", "a", "n", "(", ")">>,
      <<"d", "f", ".", "g", "r", "o", "u", "p", "b", "y", "(", "c", "i", "t", "y", ")", ".",
      "c", "o", "u", "n", "t", "(", ")">>,
      <<"d", "f", ".", "g", "r", "o", "u", "p", "b", "y", "(", "'", "c", "i", "t", "y", "'",
      ")", ".", "m", "e", "d", "i", "a", "n", "(", ")">>,
      <<"d", "f", ".", "g", "r", "o", "u", "p", "b", "y", "(", "'", "n", "o", "p", "e", "'",
      ")", ".", "s", "u", "m", "(", ")">>,
      <<"d", "f", ".", "g", "r", "o", "u", "p", "b", "y", "(", "\"", "c", "i", "t", "y", "\"",
      ")", ".", "m", "a", "x", "(", ")", ".", "h", "e", "a", "d", "(", ")">>,
      <<"d", "f", ".", "g", "r", "o", "u", "p", "b", "y", "(", "'", "c", "i", "t", "y", "'", ")">>,
      <<"d", "f", ".", "g", "r", "o", "u", "p", "b", "y", "(", ".", "x">>,
      <<"d", "f", ".", "g", "r", "o", "u", "p", "b", "y", "(", "'", "n", "a", "m", "e", "'",
      ")", ".", "m", "i", "n">>,
      <<"d", "f", ".", "d", "r", "o", "p", "(", "c", "o", "l", "u", "m", "n", "s", "=", "[",
      "'", "a", "g", "e", "'", "]", ")">>,
      <<"_", "_", "i", "m", "p", "o", "r", "t", "_", "_", "(", "'", "o", "s", "'", ")", ".",
      "s", "y", "s", "t", "e", "m", "(", "'", "l", "s", "'", ")">>,
      <<"d", "f", ".", "q", "u", "e", "r", "y", "(", "'", "a", "g", "e", " ", ">", " ", "1",
      "'", ")">>,
      <<>>,
      <<"d", "f", ".", "s", "h", "a", "p", "e", "(", ")">>,
      <<"D", "F", ".", "H", "E", "A", "D", "(", ")">> }

\* query texts handed to Query_Database
Queries ==
    { <<"S", "E", "L", "E", "C", "T", " ", "n", "a", "m", "e", " ", "F", "R", "O", "M", " ",
      "t", " ", "W", "H", "E", "R", "E", " ", "a", "g", "e", " ", "=", " ", "3", "0">>,
      <<"S", "E", "L", "E", "C", "T", " ", "N", "a", "m", "e", " ", "F", "R", "O", "M", " ",
      "t", " ", "W", "H", "E", "R", "E", " ", "a", "g", "e", " ", "=", " ", "3", "0">>,
      <<"s", "e", "l", "e", "c", "t", " ", "a", "g", "e", " ", "f", "r", "o", "m", " ", "t",
      " ", "w", "h", "e", "r", "e", " ", "n", "a", "m", "e", " ", "=", " ", "'", "A", "'">>,
      <<"S", "E", "L", "E", "C", "T", " ", "*", " ", "F", "R", "O", "M", " ", "t">>,
      <<"S", "E", "L", "E", "C", "T", " ", "n", "a", "m", "e", ",", " ", "a", "g", "e", " ",
      "F", "R", "O", "M", " ", "t", " ", "W", "H", "E", "R", "E", " ", "a", "g", "e", "=",
      "2", "0">>,
      <<"S", "E", "L", "E", "C", "T", " ", "c", "o", "u", "n", "t", "(", "n", "a", "m", "e",
      ")", " ", "F", "R", "O", "M", " ", "t">>,
      <<"S", "E", "L", "E", "C", "T", " ", "s", "u", "m", "(", "a", "g", "e", ")", ",", " ",
      "a", "v", "g", "(", "a", "g", "e", ")", " ", "F", "R", "O", "M", " ", "t", " ", "W",
      "H", "E", "R", "E", " ", "a", "g", "e", " ", "=", " ", "3", "0">>,
      <<"S", "E", "L", "E", "C", "T", " ", "m", "a", "x", "(", "n", "o", "p", "e", ")", " ",
      "F", "R", "O", "M", " ", "t">>,
      <<"S", "E", "L", "E", "C", "T", " ", "a", "v", "g", "(", "n", "a", "m", "e", ")", " ",
      "F", "R", "O", "M", " ", "t">>,
      <<"S", "E", "L", "E", "C", "T", " ", "m", "i", "n", "(", "n", "a", "m", "e", ")", ",",
      " ", "m", "a", "x", "(", "a", "g", "e", ")", " ", "F", "R", "O", "M", " ", "t">>,
      <<"S", "E", "L", "E", "C", "T", " ", "c", "o", "u", "n", "t", "(", "*", ")", " ", "F",
      "R", "O", "M", " ", "t">>,
      <<"S", "E", "L", "E", "C", "T", " ", "c", "i", "t", "y", " ", "F", "R", "O", "M", " ",
      "t", " ", "W", "H", "E", "R", "E", " ", "q", "t", "y", " ", "=", " ", "2">>,
      <<"S", "E", "L", "E", "C", "T", " ", "a", "g", "e", " ", "F", "R", "O", "M", " ", "t",
      " ", "W", "H", "E", "R", "E", " ", "a", "v", "e", "r", "a", "g", "e", "_", "a", "g",
      "e", " ", "=", " ", "3", "0">>,
      <<"s", "h", "o", "w", " ", "m", "e", " ", "t", "h", "e", " ", "d", "a", "t", "a">>,
      <<"S", "E", "L", "E", "C", "T", " ", "n", "a", "m", "e">>,
      <<"F", "R", "O", "M", " ", "t">>,
      <<>>,
      <<"S", "E", "L", "E", "C", "T", " ", "n", "o", "p", "e", " ", "F", "R", "O", "M", " ",
      "t", " ", "W", "H", "E", "R", "E", " ", "a", "g", "e", " ", "=", " ", "3", "0">>,
      <<"S", "E", "L", "E", "C", "T", " ", "n", "a", "m", "e", " ", "F", "R", "O", "M", " ",
      "t", " ", "W", "H", "E", "R", "E", " ", "a", "g", "e", " ", "=", " ", "3", "0", ".", "0">>,
      <<"S", "E", "L", "E", "C", "T", " ", "n", "a", "m", "e", " ", "F", "R", "O", "M", " ",
      "t", " ", "W", "H", "E", "R", "E", " ", "a", "g", "e", " ", "=", " ", "a", "b", "c">>,
      <<"S", "E", "L", "E", "C", "T", " ", "n", "a", "m", "e", " ", "F", "R", "O", "M", " ",
      "t", " ", "W", "H", "E", "R", "E", " ", "a", "g", "e", " ", ">", " ", "2", "0">>,
      <<"S", "E", "L", "E", "C", "T", " ", "a", "v", "g", "(", "a", "g", "e", ")", " ", "F",
      "R", "O", "M", " ", "t", " ", "W", "H", "E", "R", "E", " ", "a", "g", "e", " ", "=",
      " ", "9", "9">> }

InitData ==
    /\ AgentIdle
    /\ ToolsIdle

\* ToolRegistry.set_csv_loader with a loaded CSVLoader
SetCsvLoader ==
    /\ \E df \in Frames : dataset' = <<df>>
    /\ last_call' = <<>>
    /\ UNCHANGED <<agent_vars, calc_vars, stream_vars, session_vars>>

\* Analyze_CSV is called: evaluation is what execute_pandas_operation did
\* and returned, returned is the dict of analyze_csv_tool
AnalyzeCsv ==
    /\ \E operation \in Operations, fails \in BOOLEAN :
          last_call' =
              << [tool |-> T_Analyze_CSV, input |-> operation,
                  evaluation |-> execute_pandas_operation(dataset, operation, fails),
                  returned |-> analyze_csv_tool(dataset, operation, fails)] >>
    /\ UNCHANGED dataset
    /\ UNCHANGED <<agent_vars, calc_vars, stream_vars, session_vars>>

\* Query_Database is called
QueryDatabase ==
    /\ \E query \in Queries :
          last_call' =
              << [tool |-> T_Query_Database, input |-> query,
                  returned |-> query_database_tool(dataset, query)] >>
    /\ UNCHANGED dataset
    /\ UNCHANGED <<agent_vars, calc_vars, stream_vars, session_vars>>

NextCsv == SetCsvLoader \/ AnalyzeCsv \/ QueryDatabase

SpecCsv == InitData /\ [][NextCsv]_vars

-----------------------------------------------------------------------------
(* CSVLoader._extract_metadata and AgentMemory.get_formatted_memory        *)
(*                                                                         *)
(* The summary of a dataset is the dict _extract_metadata builds, a record *)
(* whose fields are the keys of the dict (with empty, which tells the      *)
(* dict {} from the others): numeric_stats is there only when the frame    *)
(* has a numeric column.  A statistic is the float n/d.                    *)

\* df.head(5)
SAMPLE_SIZE == 5
\* sample_rows[:3]
SAMPLE_SHOWN == 3
\* len(content) > 100
CONTENT_LIMIT == 100
\* content[:97]
CONTENT_KEPT == 97

\* the numbers of a sequence in ascending order
RECURSIVE Ascending(_)
Ascending(ns) ==
    IF ns = <<>> THEN <<>>
    ELSE LET least == SetMin({ns[i] : i \in 1..Len(ns)})
             at == SetMin({i \in 1..Len(ns) : ns[i] = least})
         IN  <<least>> \o Ascending(SubSeq(ns, 1, at - 1) \o SubSeq(ns, at + 1, Len(ns)))

\* Series.median of the numbers in ascending order
MedianOf(sorted) ==
    IF Len(sorted) % 2 = 1 THEN [n |-> sorted[(Len(sorted) + 1) \div 2], d |-> 1]
    ELSE [n |-> sorted[Len(sorted) \div 2] + sorted[Len(sorted) \div 2 + 1], d |-> 2]

\* min, max, mean and median of a numeric column that has rows
StatsOf(ns, sorted) ==
    << [k |-> T_min, val |-> [n |-> sorted[1], d |-> 1]],
       [k |-> T_max, val |-> [n |-> sorted[Len(sorted)], d |-> 1]],
       [k |-> T_mean, val |-> [n |-> SumCells([i \in 1..Len(ns) |-> IntCell(ns[i])]), d |-> Len(ns)]],
       [k |-> T_median, val |-> MedianOf(sorted)] >>

ColumnNumbers(df, j) == [r \in 1..Len(df.rows) |-> df.rows[r][j].n]

\* select_dtypes(include=['int64', 'float64']).columns
NumericCols(df) == SelectSeq([j \in 1..Len(df.columns) |-> j],
                             LAMBDA j : df.dtypes[j] \in {"int64", "float64"})

NumericStats(df) ==
    [c \in 1..Len(NumericCols(df)) |->
        [k |-> df.columns[NumericCols(df)[c]],
         val |-> StatsOf(ColumnNumbers(df, NumericCols(df)[c]),
                         Ascending(ColumnNumbers(df, NumericCols(df)[c])))]]

\* df.head(5).to_dict(orient="records")
SampleRows(df) ==
    [r \in 1..SetMin({Len(df.rows), SAMPLE_SIZE}) |->
        RowRecord(df.columns, df.rows[r], Len(df.columns))]

\* the keys every summary has
SummaryBase(df) ==
    Metadata(Len(df.rows), Len(df.columns))
        @@ [columns |-> df.columns, dtypes |-> df.dtypes,
            missing_values |-> [j \in 1..Len(df.columns) |-> 0],
            sample_rows |-> SampleRows(df)]

\* CSVLoader._extract_metadata on a frame with rows and no missing cell
extract_metadata(df) ==
    IF NumericCols(df) # <<>>
    THEN SummaryBase(df) @@ [numeric_stats |-> NumericStats(df)]
    ELSE SummaryBase(df)

\* the summary kept with the keys of the earlier one that the new one lacks
set_csv_metadata_merged(old, metadata) == metadata @@ old

\* the summary AgentMemory.set_csv_metadata keeps: the new one
set_csv_metadata(old, metadata) == metadata

\* sep.join(texts)
RECURSIVE JoinWith(_, _)
JoinWith(texts, sep) ==
    IF texts = <<>> THEN <<>>
    ELSE IF Len(texts) = 1 THEN texts[1]
    ELSE texts[1] \o sep \o JoinWith(Tail(texts), sep)

\* repr of a cell value: a text in quotes, a number as it is
ReprValue(x) == IF x.t = "str" THEN <<"'">> \o x.v \o <<"'">> ELSE x.v

\* str(row) of a record of the sample
ReprDict(items) ==
    <<"{">> \o JoinWith([i \in 1..Len(items) |->
                            <<"'">> \o items[i].k \o <<"'", ":", " ">> \o ReprValue(items[i].val)],
                        <<",", " ">>) \o <<"}">>

\* the hundredths of n/d (n >= 0), rounded half to even
Hundredths(n, d) ==
    LET q == (n * 100) \div d
        r == (n * 100) % d
    IN  IF 2 * r > d \/ (2 * r = d /\ q % 2 = 1) THEN q + 1 ELSE q

\* f"{v:.2f}" of the float n/d, n >= 0
Fixed2(x) ==
    NatText(Hundredths(x.n, x.d) \div 100) \o <<".">>
        \o FractionText(Hundredths(x.n, x.d) % 100, 2)

T_Empty ==     <<"<", "E", "m", "p", "t", "y", ">">>
T_CsvData ==     <<"C", "S", "V", " ", "D", "a", "t", "a", ":">>
T_ColumnsLine ==     <<"-", " ", "C", "o", "l", "u", "m", "n", "s", ":", " ">>
T_RowsLine ==     <<"-", " ", "R", "o", "w", "s", ":", " ">>
T_SampleData ==     <<"-", " ", "S", "a", "m", "p", "l", "e", " ", "D", "a", "t", "a", ":">>
T_RowIndent ==     <<" ", " ", "R", "o", "w", " ">>
T_NumericStats ==     <<"-", " ", "N", "u", "m", "e", "r", "i", "c", " ", "C", "o", "l", "u", "m", "n",
      " ", "S", "t", "a", "t", "i", "s", "t", "i", "c", "s", ":">>
T_PreviousOperations ==     <<"P", "r", "e", "v", "i", "o", "u", "s", " ", "O", "p", "e", "r", "a", "t", "i",
      "o", "n", "s", ":">>

\* the characters of an entry type
TypeText(entry_type) ==
    CASE entry_type = "agent_decision" ->     <<"a", "g", "e", "n", "t", "_", "d", "e", "c", "i", "s", "i", "o", "n">>
      [] entry_type = "tool_result" ->     <<"t", "o", "o", "l", "_", "r", "e", "s", "u", "l", "t">>
      [] entry_type = "final_answer" ->     <<"f", "i", "n", "a", "l", "_", "a", "n", "s", "w", "e", "r">>
      [] entry_type = "csv_loaded" ->     <<"c", "s", "v", "_", "l", "o", "a", "d", "e", "d">>

\* "  {col}: {stats_str}"
StatsLine(item) ==
    <<" ", " ">> \o item.k \o T_ColonSpace
        \o JoinWith([i \in 1..Len(item.val) |->
                        item.val[i].k \o <<"=">> \o Fixed2(item.val[i].val)], <<",", " ">>)

\* the lines of the dataset section, the empty line after it included
CsvLines(metadata) ==
    <<T_CsvData>>
      \o (IF "columns" \in DOMAIN metadata
          THEN <<T_ColumnsLine \o JoinWith(metadata.columns, <<",", " ">>)>> ELSE <<>>)
      \o (IF "num_rows" \in DOMAIN metadata
          THEN <<T_RowsLine \o NatText(metadata.num_rows)>> ELSE <<>>)
      \o (IF "sample_rows" \in DOMAIN metadata /\ metadata.sample_rows # <<>>
          THEN <<T_SampleData>>
                 \o [i \in 1..SetMin({Len(metadata.sample_rows), SAMPLE_SHOWN}) |->
                        T_RowIndent \o NatText(i) \o T_ColonSpace
                            \o ReprDict(metadata.sample_rows[i])]
          ELSE <<>>)
      \o (IF "numeric_stats" \in DOMAIN metadata
          THEN <<T_NumericStats>>
                 \o [c \in 1..Len(metadata.numeric_stats) |-> StatsLine(metadata.numeric_stats[c])]
          ELSE <<>>)
      \o << <<>> >>

\* "Truncate long content"
Shown(content) ==
    IF Len(content) > CONTENT_LIMIT THEN Slice(content, 0, CONTENT_KEPT) \o T_Ellipsis
    ELSE content

\* the lines of the log
EntryLines(mem) ==
    <<T_PreviousOperations>>
      \o [i \in 1..Len(mem) |->
            NatText(i) \o <<".", " ", "[">> \o TypeText(mem[i].type) \o <<"]", " ">>
                \o Shown(mem[i].content)]

\* the sections joined, with no sentinel for a memory that holds nothing
get_formatted_memory_bare(mem, metadata) ==
    JoinWith((IF ~metadata.empty THEN CsvLines(metadata) ELSE <<>>)
               \o (IF mem # <<>> THEN EntryLines(mem) ELSE <<>>), <<"\n">>)

\* AgentMemory.get_formatted_memory
get_formatted_memory(mem, metadata) ==
    IF mem = <<>> /\ metadata.empty THEN T_Empty
    ELSE JoinWith((IF ~metadata.empty THEN CsvLines(metadata) ELSE <<>>)
                    \o (IF mem # <<>> THEN EntryLines(mem) ELSE <<>>), <<"\n">>)

-----------------------------------------------------------------------------
(* SpecMemory: an AgentMemory under add_entry, set_csv_metadata and clear  *)

\* the number of entries recorded between two clears
MaxRecorded == 4

\* the number of rows of the one-column tables loaded
MaxRows == 2

EntryTypes == {"agent_decision", "tool_result", "final_answer"}

\* a table of one text column
RECURSIVE Labels(_)
Labels(rows) ==
    IF rows = 0 THEN DataFrame(<<T_name>>, <<"object">>, <<>>)
    ELSE [Labels(rows - 1) EXCEPT !.rows = Append(@, <<StrCell(<<"A">>)>>)]

\* the summaries of the datasets loaded: tables of one text column, which
\* have no numeric statistics, and a table with a numeric column
Datasets == {extract_metadata(Labels(rows)) : rows \in 1..MaxRows} \cup {extract_metadata(People)}

\* a content longer than the render shows
LongAnswer == [i \in 1..(CONTENT_LIMIT + 1) |-> "x"]
Contents(entry_type) == IF entry_type = "final_answer" THEN {T_answer, LongAnswer} ELSE {T_answer}

\* AgentMemory.__init__(max_entries)
InitMemory ==
    /\ response = <<>>
    /\ parsed = <<>>
    /\ tools = <<>>
    /\ registrations = <<>>
    /\ last_dispatch = <<>>
    /\ memories = <<>>
    /\ max_entries \in Capacities
    /\ csv_metadata = NoMetadata
    /\ recorded = <<>>
    /\ pc = "idle"
    /\ turn = NewTurn
    /\ ToolsIdle

AddEntry ==
    /\ Len(recorded) < MaxRecorded
    /\ \E entry_type \in EntryTypes : \E content \in Contents(entry_type) :
          /\ memories' = add_entry(memories, max_entries, Entry(entry_type, content, EmptyDict))
          /\ recorded' = Append(recorded, Entry(entry_type, content, EmptyDict))
    /\ UNCHANGED <<response, parsed, tools, registrations, last_dispatch, max_entries,
                   csv_metadata, pc, turn>>
    /\ UNCHANGED tool_vars

SetCsvMetadata ==
    /\ Len(recorded) < MaxRecorded
    /\ \E metadata \in Datasets :
          /\ csv_metadata' = set_csv_metadata(csv_metadata, metadata)
          /\ memories' = add_entry(memories, max_entries, CsvLoadedEntry(metadata))
          /\ recorded' = Append(recorded, CsvLoadedEntry(metadata))
    /\ UNCHANGED <<response, parsed, tools, registrations, last_dispatch, max_entries,
                   pc, turn>>
    /\ UNCHANGED tool_vars

Clear ==
    /\ memories' = clear(memories)
    /\ recorded' = <<>>
    /\ UNCHANGED <<response, parsed, tools, registrations, last_dispatch, max_entries,
                   csv_metadata, pc, turn>>
    /\ UNCHANGED tool_vars

NextMemory == AddEntry \/ SetCsvMetadata \/ Clear

SpecMemory == InitMemory /\ [][NextMemory]_vars

-----------------------------------------------------------------------------
(* create_standard_tools: the capability registered as                     *)
(* "Format_Visualization"                                                  *)

KEY_visualization_data ==     <<"v", "i", "s", "u", "a", "l", "i", "z", "a", "t", "i", "o", "n", "_", "d", "a",
      "t", "a">>
KEY_labels ==     <<"l", "a", "b", "e", "l", "s">>
KEY_values ==     <<"v", "a", "l", "u", "e", "s">>
KEY_series ==     <<"s", "e", "r", "i", "e", "s">>
KEY_type ==     <<"t", "y", "p", "e">>
KEY_raw_data ==     <<"r", "a", "w", "_", "d", "a", "t", "a">>
T_single_series ==     <<"s", "i", "n", "g", "l", "e", "_", "s", "e", "r", "i", "e", "s">>
T_multi_series ==     <<"m", "u", "l", "t", "i", "_", "s", "e", "r", "i", "e", "s">>
T_raw ==     <<"r", "a", "w">>

\* what pandas makes of the value of a call: a DataFrame, a Series, or
\* something else (a number, the tuple of df.shape, the Index of df.columns)
ResultKind(result) ==
    IF result.t # "pandas" THEN "other"
    ELSE IF result.d[1].call.method
              \in {<<"h", "e", "a", "d">>, <<"t", "a", "i", "l">>,
                   <<"d", "e", "s", "c", "r", "i", "b", "e">>, T_groupby}
    THEN "DataFrame"
    ELSE IF result.d[1].call.method
              \in {<<"i", "s", "n", "a", ".", "s", "u", "m">>,
                   <<"d", "t", "y", "p", "e", "s">>, T_value_counts}
    THEN "Series"
    ELSE "other"

\* data taken from a pandas value: its index, its values, its columns, its text
Derived(part, result) == [t |-> "pandas", v |-> part, d |-> result.d]

\* formatted_data
Formatted(result, description) ==
    IF ResultKind(result) = "Series"
    THEN << [k |-> KEY_labels, val |-> Derived(KEY_labels, result)],
            [k |-> KEY_values, val |-> Derived(KEY_values, result)],
            [k |-> KEY_type, val |-> Str(T_single_series)],
            [k |-> KEY_description, val |-> Str(description)] >>
    ELSE IF ResultKind(result) = "DataFrame"
    THEN << [k |-> KEY_labels, val |-> Derived(KEY_labels, result)],
            [k |-> KEY_series, val |-> Derived(KEY_series, result)],
            [k |-> KEY_type, val |-> Str(T_multi_series)],
            [k |-> KEY_description, val |-> Str(description)] >>
    ELSE << [k |-> KEY_raw_data,
             val |-> IF result.t = "pandas" THEN Derived(KEY_raw_data, result) ELSE Str(PyStr(result))],
            [k |-> KEY_type, val |-> Str(T_raw)],
            [k |-> KEY_description, val |-> Str(description)] >>

\* the dict format_visualization_data builds from an evaluation
Visualization(operation, evaluation) ==
    << [k |-> KEY_operation, val |-> Str(operation)],
       [k |-> KEY_visualization_data,
        val |-> Dict(<<>>, Formatted(evaluation.result, evaluation.description))],
       [k |-> KEY_description, val |-> Str(evaluation.description)] >>

format_visualization_data(held, operation, fails) ==
    IF held = <<>> THEN << [k |-> KEY_error, val |-> Str(T_NoCsvLoaded)] >>
    ELSE Visualization(operation, execute_pandas_operation(held, operation, fails))

-----------------------------------------------------------------------------
(* DataAnalysisAgent.load_csv and clear_memory                             *)
(*                                                                         *)
(* A file is what the disk and pandas make of a path: whether it exists,   *)
(* the frame read_csv parses from it (<<>> when read_csv raises), and      *)
(* whether _extract_metadata summarises the frame or raises.               *)

File(exists, frame, summarised) ==
    [exists |-> exists, parsed |-> frame, summarised |-> summarised]

\* CSVLoader(file_path) after load(): df, metadata and what load returned
load(file) ==
    IF ~file.exists \/ file.parsed = <<>>
    THEN [df |-> <<>>, metadata |-> NoMetadata, success |-> FALSE]
    ELSE IF ~file.summarised
    THEN [df |-> file.parsed, metadata |-> NoMetadata, success |-> FALSE]
    ELSE [df |-> file.parsed, metadata |-> extract_metadata(file.parsed[1]), success |-> TRUE]

\* the loader bound to the registry before load() is looked at
load_csv_bound_first(held, metadata, mem, max, loader) ==
    [dataset |-> loader.df,
     csv_metadata |-> IF loader.success THEN loader.metadata ELSE metadata,
     memories |-> IF loader.success THEN add_entry(mem, max, CsvLoadedEntry(loader.metadata))
                  ELSE mem,
     returned |-> loader.success]

\* DataAnalysisAgent.load_csv: the binding of the registry, the summary and
\* the log of the memory it leaves, and what it returns
load_csv(held, metadata, mem, max, loader) ==
    IF loader.success
    THEN [dataset |-> loader.df,
          csv_metadata |-> set_csv_metadata(metadata, loader.metadata),
          memories |-> add_entry(mem, max, CsvLoadedEntry(loader.metadata)),
          returned |-> TRUE]
    ELSE [dataset |-> held, csv_metadata |-> metadata, memories |-> mem, returned |-> FALSE]

\* clear_memory forgetting the dataset too
clear_memory_forgetting(mem, metadata) == [memories |-> <<>>, csv_metadata |-> NoMetadata]

\* DataAnalysisAgent.clear_memory: the log and the summary it leaves
clear_memory(mem, metadata) == [memories |-> clear(mem), csv_metadata |-> metadata]

\* registry.csv_loader as a capability registered while nothing was bound
\* would read it if the closure kept the value of that time
registry_csv_loader_at_registration(at_registration, at_call) == at_registration

\* registry.csv_loader as the closures of create_standard_tools read it:
\* the attribute of the registry when the capability is called
registry_csv_loader(at_registration, at_call) == at_call

-----------------------------------------------------------------------------
(* SpecSession: an agent whose dataset capabilities were registered at     *)
(* construction, under load_csv, clear_memory, entries recorded by turns   *)
(* and calls of the three dataset capabilities                             *)

\* the number of load_csv, add_entry and clear_memory calls of a behaviour
MaxEvents == 2

Files ==
    { File(FALSE, <<>>, FALSE), File(TRUE, <<>>, FALSE),
      File(TRUE, <<People>>, TRUE), File(TRUE, <<Sales>>, TRUE) }

SessionOperations == {T_df_head, T_df_shape}
SessionQueries ==
    { <<"S", "E", "L", "E", "C", "T", " ", "*", " ", "F", "R", "O", "M", " ", "t">> }

Event(op, file, returned) == [op |-> op, file |-> file, returned |-> returned]

InitSession ==
    /\ AgentIdle
    /\ ToolsIdle

LoadCsv ==
    /\ Len(events) < MaxEvents
    /\ \E file \in Files :
          /\ dataset' = load_csv(dataset, csv_metadata, memories, max_entries, load(file)).dataset
          /\ csv_metadata' =
                 load_csv(dataset, csv_metadata, memories, max_entries, load(file)).csv_metadata
          /\ memories' =
                 load_csv(dataset, csv_metadata, memories, max_entries, load(file)).memories
          /\ events' = Append(events,
                 Event("load_csv", <<file>>,
                       load_csv(dataset, csv_metadata, memories, max_entries, load(file)).returned))
    /\ UNCHANGED <<response, parsed, tools, registrations, last_dispatch, max_entries,
                   recorded, pc, turn, last_call>>
    /\ UNCHANGED <<calc_vars, stream_vars, mongo_client>>

\* AgentMemory.add_entry, as a turn calls it
RecordEntry ==
    /\ Len(events) < MaxEvents
    /\ memories' = add_entry(memories, max_entries, Entry("final_answer", T_answer, EmptyDict))
    /\ events' = Append(events, Event("add_entry", <<>>, FALSE))
    /\ UNCHANGED <<response, parsed, tools, registrations, last_dispatch, max_entries,
                   csv_metadata, recorded, pc, turn>>
    /\ UNCHANGED <<calc_vars, data_vars, stream_vars, mongo_client>>

\* DataAnalysisAgent.clear_memory
ClearMemory ==
    /\ Len(events) < MaxEvents
    /\ memories' = clear_memory(memories, csv_metadata).memories
    /\ csv_metadata' = clear_memory(memories, csv_metadata).csv_metadata
    /\ events' = Append(events, Event("clear_memory", <<>>, FALSE))
    /\ UNCHANGED <<response, parsed, tools, registrations, last_dispatch, max_entries,
                   recorded, pc, turn>>
    /\ UNCHANGED <<calc_vars, data_vars, stream_vars, mongo_client>>

\* the capabilities registered at construction, when no dataset was bound
\* (<<>>), are called
CallAnalyzeCsv ==
    /\ \E operation \in SessionOperations :
          last_call' =
              << [tool |-> T_Analyze_CSV, input |-> operation,
                  returned |-> analyze_csv_tool(registry_csv_loader(<<>>, dataset),
                                                operation, FALSE)] >>
    /\ UNCHANGED dataset
    /\ UNCHANGED <<agent_vars, calc_vars, stream_vars, session_vars>>

CallQueryDatabase ==
    /\ \E query \in SessionQueries :
          last_call' =
              << [tool |-> T_Query_Database, input |-> query,
                  returned |-> query_database_tool(registry_csv_loader(<<>>, dataset), query)] >>
    /\ UNCHANGED dataset
    /\ UNCHANGED <<agent_vars, calc_vars, stream_vars, session_vars>>

CallFormatVisualization ==
    /\ \E operation \in SessionOperations :
          last_call' =
              << [tool |-> T_Format_Visualization, input |-> operation,
                  returned |-> format_visualization_data(registry_csv_loader(<<>>, dataset),
                                                         operation, FALSE)] >>
    /\ UNCHANGED dataset
    /\ UNCHANGED <<agent_vars, calc_vars, stream_vars, session_vars>>

NextSession ==
    \/ LoadCsv
    \/ RecordEntry
    \/ ClearMemory
    \/ CallAnalyzeCsv
    \/ CallQueryDatabase
    \/ CallFormatVisualization

SpecSession == InitSession /\ [][NextSession]_vars

-----------------------------------------------------------------------------
(* create_standard_tools: the capability registered as "MongoDB_Query"     *)
(*                                                                         *)
(* The client bound to the registry is <<>> (None) or a MongoDBClient,     *)
(* whose collection is set or not.  A call of the capability gives the     *)
(* dict returned and the methods of the client it called; what a method    *)
(* returns is a value of the store, named by the call.                     *)

KEY_limit ==     <<"l", "i", "m", "i", "t">>
KEY_document ==     <<"d", "o", "c", "u", "m", "e", "n", "t">>
KEY_update ==     <<"u", "p", "d", "a", "t", "e">>
KEY_count ==     <<"c", "o", "u", "n", "t">>
KEY_inserted_id ==     <<"i", "n", "s", "e", "r", "t", "e", "d", "_", "i", "d">>
KEY_modified_count ==     <<"m", "o", "d", "i", "f", "i", "e", "d", "_", "c", "o", "u", "n", "t">>
KEY_deleted_count ==     <<"d", "e", "l", "e", "t", "e", "d", "_", "c", "o", "u", "n", "t">>
T_find ==     <<"f", "i", "n", "d">>
T_find_one ==     <<"f", "i", "n", "d", "_", "o", "n", "e">>
T_insert_one ==     <<"i", "n", "s", "e", "r", "t", "_", "o", "n", "e">>
T_update_one ==     <<"u", "p", "d", "a", "t", "e", "_", "o", "n", "e">>
T_delete_one ==     <<"d", "e", "l", "e", "t", "e", "_", "o", "n", "e">>
T_count_documents ==     <<"c", "o", "u", "n", "t", "_", "d", "o", "c", "u", "m", "e", "n", "t", "s">>
T_MongoNotInitialized ==     <<"M", "o", "n", "g", "o", "D", "B", " ", "c", "l", "i", "e", "n", "t", " ", "n",
      "o", "t", " ", "i", "n", "i", "t", "i", "a", "l", "i", "z", "e", "d">>
T_InvalidJson ==     <<"I", "n", "v", "a", "l", "i", "d", " ", "J", "S", "O", "N", " ", "q", "u", "e",
      "r", "y", " ", "s", "t", "r", "i", "n", "g">>
T_NoDocument ==     <<"N", "o", " ", "d", "o", "c", "u", "m", "e", "n", "t", " ", "p", "r", "o", "v",
      "i", "d", "e", "d", " ", "f", "o", "r", " ", "i", "n", "s", "e", "r", "t">>
T_QueryAndUpdate ==     <<"Q", "u", "e", "r", "y", " ", "a", "n", "d", " ", "u", "p", "d", "a", "t", "e",
      " ", "d", "o", "c", "u", "m", "e", "n", "t", "s", " ", "r", "e", "q", "u", "i",
      "r", "e", "d">>
T_QueryRequired ==     <<"Q", "u", "e", "r", "y", " ", "d", "o", "c", "u", "m", "e", "n", "t", " ", "r",
      "e", "q", "u", "i", "r", "e", "d">>
T_Unsupported ==     <<"U", "n", "s", "u", "p", "p", "o", "r", "t", "e", "d", " ", "o", "p", "e", "r",
      "a", "t", "i", "o", "n", ":", " ">>
T_CollectionNotSet ==     <<"C", "o", "l", "l", "e", "c", "t", "i", "o", "n", " ", "n", "o", "t", " ", "s",
      "e", "t", ".", " ", "C", "a", "l", "l", " ", "s", "e", "t", "_", "c", "o", "l",
      "l", "e", "c", "t", "i", "o", "n", " ", "f", "i", "r", "s", "t", ".">>
T_JsonObjectMustBe ==     <<"t", "h", "e", " ", "J", "S", "O", "N", " ", "o", "b", "j", "e", "c", "t", " ",
      "m", "u", "s", "t", " ", "b", "e", " ", "s", "t", "r", ",", " ", "b", "y", "t",
      "e", "s", " ", "o", "r", " ", "b", "y", "t", "e", "a", "r", "r", "a", "y", ",",
      " ", "n", "o", "t", " ">>
T_HasNoGet ==     <<"'", " ", "o", "b", "j", "e", "c", "t", " ", "h", "a", "s", " ", "n", "o", " ",
      "a", "t", "t", "r", "i", "b", "u", "t", "e", " ", "'", "g", "e", "t", "'">>

\* limit = query_data.get("limit", 50)
FIND_LIMIT == 50

\* type(x).__name__ of a Python value of tag t whose text is text
TypeName(t, text) ==
    CASE t = "str" -> <<"s", "t", "r">>
      [] t = "null" -> <<"N", "o", "n", "e", "T", "y", "p", "e">>
      [] t = "bool" -> <<"b", "o", "o", "l">>
      [] t = "obj" -> <<"d", "i", "c", "t">>
      [] t = "arr" -> <<"l", "i", "s", "t">>
      [] t = "num" ->
            IF \A i \in 1..Len(text) : text[i] \in Digits \cup {"-"}
            THEN <<"i", "n", "t">> ELSE <<"f", "l", "o", "a", "t">>

\* not x, for a value an envelope holds
Missing(x) ==
    IF x.t = "arr" THEN Replace(x.v, <<" ">>, <<>>) = <<"[", "]">> ELSE ~Truthy(x)

StoreCall(method, args) == [method |-> method, args |-> args]

\* what a method of the client returned, or something taken from it
MongoValue(part, call) == [t |-> "mongo", v |-> part, d |-> <<call>>]

\* a call of the tool: the dict returned and the methods of the client called
MongoCall(returned, calls) == [returned |-> returned, calls |-> calls]

\* a method of MongoDBClient is called: it raises ValueError without a
\* collection, raises tells whether the driver raises, items is the dict
\* built from what it returns
Stored(client, call, raises, items) ==
    MongoCall(IF ~client.collection
              THEN ErrorResult(T_ErrorExecutingQuery \o T_CollectionNotSet)
              ELSE IF raises THEN ErrorResult(T_ErrorExecutingQuery \o T_boom)
              ELSE items,
              <<call>>)

Operated(operation, field, value) ==
    << [k |-> KEY_operation, val |-> Str(operation)], [k |-> field, val |-> value] >>

\* the branches of the operations, query_data being the envelope decoded
MongoFind(client, query_data, raises, call) ==
    Stored(client, call, raises,
           Operated(T_find, KEY_result, MongoValue(KEY_result, call))
               \o << [k |-> KEY_count, val |-> MongoValue(KEY_count, call)] >>)

MongoFindOne(client, query_data, raises, call) ==
    Stored(client, call, raises, Operated(T_find_one, KEY_result, MongoValue(KEY_result, call)))

MongoInsertOne(client, query_data, raises, call) ==
    IF Missing(Get(query_data, KEY_document, None))
    THEN MongoCall(ErrorResult(T_NoDocument), <<>>)
    ELSE Stored(client, call, raises,
                Operated(T_insert_one, KEY_inserted_id, MongoValue(KEY_inserted_id, call)))

MongoUpdateOne(client, query_data, raises, call) ==
    IF Missing(Get(query_data, KEY_query, None)) \/ Missing(Get(query_data, KEY_update, None))
    THEN MongoCall(ErrorResult(T_QueryAndUpdate), <<>>)
    ELSE Stored(client, call, raises,
                Operated(T_update_one, KEY_modified_count, MongoValue(KEY_modified_count, call)))

MongoDeleteOne(client, query_data, raises, call) ==
    IF Missing(Get(query_data, KEY_query, None))
    THEN MongoCall(ErrorResult(T_QueryRequired), <<>>)
    ELSE Stored(client, call, raises,
                Operated(T_delete_one, KEY_deleted_count, MongoValue(KEY_deleted_count, call)))

MongoCount(client, query_data, raises, call) ==
    Stored(client, call, raises, Operated(T_count, KEY_count, MongoValue(KEY_count, call)))

\* the operation read with find as its default
Operation_default_find(query_data) == Get(query_data, KEY_operation, Str(T_find))

\* operation = query_data.get("operation")
Operation(query_data) == Get(query_data, KEY_operation, None)

\* the if/elif chain on operation
MongoOperation(client, query_data, operation, raises) ==
    IF operation = Str(T_find)
    THEN MongoFind(client, query_data, raises,
              StoreCall(T_find, <<Get(query_data, KEY_query, Dict(<<"{", "}">>, EmptyDict)),
                                  Get(query_data, KEY_limit, Value("num", NatText(FIND_LIMIT)))>>))
    ELSE IF operation = Str(T_find_one)
    THEN MongoFindOne(client, query_data, raises,
                 StoreCall(T_find_one, <<Get(query_data, KEY_query, Dict(<<"{", "}">>, EmptyDict))>>))
    ELSE IF operation = Str(T_insert_one)
    THEN MongoInsertOne(client, query_data, raises,
                   StoreCall(T_insert_one, <<Get(query_data, KEY_document, None)>>))
    ELSE IF operation = Str(T_update_one)
    THEN MongoUpdateOne(client, query_data, raises,
                   StoreCall(T_update_one, <<Get(query_data, KEY_query, None),
                                            Get(query_data, KEY_update, None)>>))
    ELSE IF operation = Str(T_delete_one)
    THEN MongoDeleteOne(client, query_data, raises,
                   StoreCall(T_delete_one, <<Get(query_data, KEY_query, None)>>))
    ELSE IF operation = Str(T_count)
    THEN MongoCount(client, query_data, raises,
               StoreCall(T_count_documents,
                         <<Get(query_data, KEY_query, Dict(<<"{", "}">>, EmptyDict))>>))
    ELSE MongoCall(ErrorResult(T_Unsupported \o PyStr(operation)), <<>>)

\* the try block, loaded being json.loads(query_str) of the str query_str
Decoded(client, query_str, loaded, raises) ==
    IF ~loaded.ok THEN MongoCall(ErrorResult(T_InvalidJson), <<>>)
    ELSE IF loaded.t # "obj"
    THEN MongoCall(ErrorResult(T_ErrorExecutingQuery \o <<"'">>
                                  \o TypeName(loaded.t, Strip(query_str)) \o T_HasNoGet),
                   <<>>)
    ELSE MongoOperation(client, loaded.dict, Operation(loaded.dict), raises)

\* create_standard_tools: the capability registered as "MongoDB_Query",
\* held being registry.mongo_client and query_str any Python value
mongo_query_tool(held, query_str, raises) ==
    IF held = <<>> THEN MongoCall(ErrorResult(T_MongoNotInitialized), <<>>)
    ELSE IF query_str.t # "str"
    THEN MongoCall(ErrorResult(T_ErrorExecutingQuery \o T_JsonObjectMustBe
                                  \o TypeName(query_str.t, query_str.v)),
                   <<>>)
    ELSE Decoded(held[1], query_str.v, json_loads(query_str.v), raises)

-----------------------------------------------------------------------------
(* SpecMongo: the capability MongoDB_Query under set_mongo_client and      *)
(* calls with envelopes, well formed and not                               *)

MongoClients == {[collection |-> FALSE], [collection |-> TRUE]}

\* envelopes that name one of the six operations
GoodEnvelopes ==
    {     <<"{", "\"", "o", "p", "e", "r", "a", "t", "i", "o", "n", "\"", ":", " ", "\"", "f",
      "i", "n", "d", "\"", "}">>,
          <<"{", "\"", "o", "p", "e", "r", "a", "t", "i", "o", "n", "\"", ":", " ", "\"", "f",
      "i", "n", "d", "\"", ",", " ", "\"", "q", "u", "e", "r", "y", "\"", ":", " ", "{",
      "\"", "a", "g", "e", "\"", ":", " ", "3", "}", ",", " ", "\"", "l", "i", "m", "i",
      "t", "\"", ":", " ", "2", "}">>,
          <<"{", "\"", "o", "p", "e", "r", "a", "t", "i", "o", "n", "\"", ":", " ", "\"", "f",
      "i", "n", "d", "_", "o", "n", "e", "\"", ",", " ", "\"", "q", "u", "e", "r", "y",
      "\"", ":", " ", "{", "}", "}">>,
          <<"{", "\"", "o", "p", "e", "r", "a", "t", "i", "o", "n", "\"", ":", " ", "\"", "i",
      "n", "s", "e", "r", "t", "_", "o", "n", "e", "\"", ",", " ", "\"", "d", "o", "c",
      "u", "m", "e", "n", "t", "\"", ":", " ", "{", "\"", "a", "\"", ":", " ", "1", "}",
      "}">>,
          <<"{", "\"", "o", "p", "e", "r", "a", "t", "i", "o", "n", "\"", ":", " ", "\"", "i",
      "n", "s", "e", "r", "t", "_", "o", "n", "e", "\"", "}">>,
          <<"{", "\"", "o", "p", "e", "r", "a", "t", "i", "o", "n", "\"", ":", " ", "\"", "i",
      "n", "s", "e", "r", "t", "_", "o", "n", "e", "\"", ",", " ", "\"", "d", "o", "c",
      "u", "m", "e", "n", "t", "\"", ":", " ", "{", "}", "}">>,
          <<"{", "\"", "o", "p", "e", "r", "a", "t", "i", "o", "n", "\"", ":", " ", "\"", "u",
      "p", "d", "a", "t", "e", "_", "o", "n", "e", "\"", ",", " ", "\"", "q", "u", "e",
      "r", "y", "\"", ":", " ", "{", "\"", "a", "\"", ":", " ", "1", "}", ",", " ", "\"",
      "u", "p", "d", "a", "t", "e", "\"", ":", " ", "{", "\"", "$", "s", "e", "t", "\"",
      ":", " ", "{", "\"", "a", "\"", ":", " ", "2", "}", "}", "}">>,
          <<"{", "\"", "o", "p", "e", "r", "a", "t", "i", "o", "n", "\"", ":", " ", "\"", "u",
      "p", "d", "a", "t", "e", "_", "o", "n", "e", "\"", ",", " ", "\"", "q", "u", "e",
      "r", "y", "\"", ":", " ", "{", "\"", "a", "\"", ":", " ", "1", "}", "}">>,
          <<"{", "\"", "o", "p", "e", "r", "a", "t", "i", "o", "n", "\"", ":", " ", "\"", "d",
      "e", "l", "e", "t", "e", "_", "o", "n", "e", "\"", ",", " ", "\"", "q", "u", "e",
      "r", "y", "\"", ":", " ", "{", "\"", "a", "\"", ":", " ", "1", "}", "}">>,
          <<"{", "\"", "o", "p", "e", "r", "a", "t", "i", "o", "n", "\"", ":", " ", "\"", "d",
      "e", "l", "e", "t", "e", "_", "o", "n", "e", "\"", ",", " ", "\"", "q", "u", "e",
      "r", "y", "\"", ":", " ", "[", "]", "}">>,
          <<"{", "\"", "o", "p", "e", "r", "a", "t", "i", "o", "n", "\"", ":", " ", "\"", "c",
      "o", "u", "n", "t", "\"", "}">>,
          <<"{", "\"", "o", "p", "e", "r", "a", "t", "i", "o", "n", "\"", ":", " ", "\"", "d",
      "r", "o", "p", "\"", ",", " ", "\"", "o", "p", "e", "r", "a", "t", "i", "o", "n",
      "\"", ":", " ", "\"", "c", "o", "u", "n", "t", "\"", ",", " ", "\"", "q", "u", "e",
      "r", "y", "\"", ":", " ", "{", "\"", "a", "\"", ":", " ", "1", "}", "}">> }

\* texts that are no JSON, and envelopes that name no operation of the six
BadEnvelopes ==
    { <<>>,
          <<"{", "\"", "o", "p", "e", "r", "a", "t", "i", "o", "n", "\"", ":", " ", "\"", "f",
      "i", "n", "d", "\"">>,
          <<"{", "'", "o", "p", "e", "r", "a", "t", "i", "o", "n", "'", ":", " ", "'", "f",
      "i", "n", "d", "'", "}">>,
          <<"{", "\"", "o", "p", "e", "r", "a", "t", "i", "o", "n", "\"", ":", " ", "\"", "f",
      "i", "n", "d", "\"", ",", "}">>,
          <<"f", "i", "n", "d">>,
          <<"{", "\"", "o", "p", "e", "r", "a", "t", "i", "o", "n", "\"", ":", " ", "\"", "f",
      "i", "n", "d", "\"", "}", " ", "x">>,
          <<"{", "\"", "o", "p", "e", "r", "a", "t", "i", "o", "n", "\"", ":", " ", "\"", "d",
      "r", "o", "p", "\"", "}">>,
          <<"{", "\"", "o", "p", "e", "r", "a", "t", "i", "o", "n", "\"", ":", " ", "\"", "F",
      "I", "N", "D", "\"", "}">>,
          <<"{", "\"", "o", "p", "e", "r", "a", "t", "i", "o", "n", "\"", ":", " ", "\"", "f",
      "i", "n", "d", " ", "\"", "}">>,
          <<"{", "\"", "o", "p", "e", "r", "a", "t", "i", "o", "n", "\"", ":", " ", "\"", "a",
      "g", "g", "r", "e", "g", "a", "t", "e", "\"", ",", " ", "\"", "q", "u", "e", "r",
      "y", "\"", ":", " ", "{", "\"", "a", "\"", ":", " ", "1", "}", ",", " ", "\"", "d",
      "o", "c", "u", "m", "e", "n", "t", "\"", ":", " ", "{", "\"", "a", "\"", ":", " ",
      "1", "}", "}">>,
          <<"{", "\"", "o", "p", "e", "r", "a", "t", "i", "o", "n", "\"", ":", " ", "n", "u",
      "l", "l", ",", " ", "\"", "q", "u", "e", "r", "y", "\"", ":", " ", "{", "}", "}">>,
          <<"{", "\"", "o", "p", "e", "r", "a", "t", "i", "o", "n", "\"", ":", " ", "5", "}">>,
          <<"{", "\"", "q", "u", "e", "r", "y", "\"", ":", " ", "{", "\"", "a", "\"", ":", " ",
      "1", "}", "}">>,
          <<"{", "}">>,
          <<"{", "\"", "O", "p", "e", "r", "a", "t", "i", "o", "n", "\"", ":", " ", "\"", "f",
      "i", "n", "d", "\"", "}">>,
          <<"{", "\"", "o", "p", "e", "r", "a", "t", "i", "o", "n", "\"", ":", " ", "\"", "f",
      "i", "n", "d", "\"", ",", " ", "\"", "o", "p", "e", "r", "a", "t", "i", "o", "n",
      "\"", ":", " ", "\"", "d", "r", "o", "p", "\"", "}">>,
          <<"[", "1", "]">>,
          <<"\"", "f", "i", "n", "d", "\"">>,
          <<"5">>,
          <<"1", ".", "5">>,
          <<"n", "u", "l", "l">>,
          <<"t", "r", "u", "e">> }

\* values handed to the capability that are no str
NoTexts == { None, Dict(<<>>, <<[k |-> KEY_operation, val |-> Str(T_find)]>>), Value("num", <<"5">>) }

MongoInputs == {Str(text) : text \in GoodEnvelopes \cup BadEnvelopes} \cup NoTexts

InitMongo ==
    /\ AgentIdle
    /\ ToolsIdle

\* ToolRegistry.set_mongo_client
SetMongoClient ==
    /\ \E client \in MongoClients : mongo_client' = <<client>>
    /\ UNCHANGED events
    /\ UNCHANGED <<agent_vars, calc_vars, data_vars, stream_vars>>

\* MongoDB_Query is called
MongoQuery ==
    /\ \E query_str \in MongoInputs, raises \in BOOLEAN :
          last_call' =
              << [tool |-> T_MongoDB_Query, input |-> query_str,
                  returned |-> mongo_query_tool(mongo_client, query_str, raises).returned,
                  calls |-> mongo_query_tool(mongo_client, query_str, raises).calls] >>
    /\ UNCHANGED dataset
    /\ UNCHANGED <<agent_vars, calc_vars, stream_vars, session_vars>>

NextMongo == SetMongoClient \/ MongoQuery

SpecMongo == InitMongo /\ [][NextMongo]_vars

-----------------------------------------------------------------------------
(* SpecStream: generate_streaming on the streams of the transport          *)

\* the number of lines of a stream
MaxLines == 3

L_hel ==     <<"{", "\"", "r", "e", "s", "p", "o", "n", "s", "e", "\"", ":", "\"", "H", "e", "l",
      "\"", ",", "\"", "d", "o", "n", "e", "\"", ":", "f", "a", "l", "s", "e", "}">>
L_lo_done ==     <<"{", "\"", "r", "e", "s", "p", "o", "n", "s", "e", "\"", ":", " ", "\"", "l", "o",
      "\"", ",", " ", "\"", "d", "o", "n", "e", "\"", ":", " ", "t", "r", "u", "e", "}">>
L_done ==     <<"{", "\"", "d", "o", "n", "e", "\"", ":", "t", "r", "u", "e", "}">>
L_garbage ==     <<"d", "a", "t", "a", ":", " ", "p", "i", "n", "g">>
L_list ==     <<"[", "1", "]">>
L_null_response ==     <<"{", "\"", "r", "e", "s", "p", "o", "n", "s", "e", "\"", ":", "n", "u", "l", "l",
      ",", "\"", "d", "o", "n", "e", "\"", ":", "f", "a", "l", "s", "e", "}">>

\* lines of a stream: chunks with a fragment, the last chunk with and
\* without one, an empty line, a line that is no JSON, a JSON list, and a
\* chunk whose response is null
StreamLines == {L_hel, L_lo_done, L_done, <<>>, L_garbage, L_list, L_null_response}

RECURSIVE LinesOfLength(_)
LinesOfLength(n) ==
    IF n = 0 THEN {<<>>}
    ELSE {Append(lines, l) : lines \in LinesOfLength(n - 1), l \in StreamLines}

Streams ==
    {Stream(T_200, lines, ending) :
        lines \in UNION {LinesOfLength(n) : n \in 0..MaxLines},
        ending \in {"end", "timeout", "failed"}}
      \cup {Stream(<<"5", "0", "0">>, <<>>, "end")}

InitStream ==
    /\ AgentIdle
    /\ ToolsIdle

\* one call of generate_streaming; the call keeps nothing between runs, a
\* behaviour holds one run
GenerateStreaming ==
    /\ streamed = <<>>
    /\ \E stream \in Streams : streamed' = <<generate_streaming(stream)>>
    /\ UNCHANGED <<agent_vars, calc_vars, data_vars, s_pc, s_turn, s_memories, session_vars>>

NextStream == GenerateStreaming

SpecStream == InitStream /\ [][NextStream]_vars

-----------------------------------------------------------------------------
(* SpecStreaming: process_question and process_question_streaming, each on *)
(* an agent of its own with the same tools and the same memory size, given *)
(* the same model texts and the same tool outcomes.  pc, turn and memories *)
(* are those of process_question; s_pc, s_turn and s_memories those of     *)
(* process_question_streaming.                                             *)

\* the text as the string literal of a chunk
JsonString(text) ==
    Quoted(Replace(Replace(Replace(text, <<"\\">>, <<"\\", "\\">>),
                           <<"\"">>, <<"\\", "\"">>),
                   <<"\n">>, <<"\\", "n">>))

L_done_true ==     <<",", " ", "\"", "d", "o", "n", "e", "\"", ":", " ", "t", "r", "u", "e", "}">>
L_done_false ==     <<",", " ", "\"", "d", "o", "n", "e", "\"", ":", " ", "f", "a", "l", "s", "e", "}">>
L_response ==     <<"{", "\"", "r", "e", "s", "p", "o", "n", "s", "e", "\"", ":", " ">>

\* a chunk of the completion service
ChunkLine(fragment, done) ==
    L_response \o JsonString(fragment) \o (IF done THEN L_done_true ELSE L_done_false)

\* the streams of the second model call: each completion in one chunk, a
\* completion in two chunks, and the faults of the transport
ModelStreams ==
    {Stream(T_200, <<ChunkLine(text, TRUE)>>, "end") : text \in Completions}
      \cup { Stream(T_200, <<ChunkLine(Slice(T_answer, 0, 4), FALSE),
                            ChunkLine(Slice(T_answer, 4, Len(T_answer)), TRUE)>>, "end"),
             Stream(T_200, <<ChunkLine(Slice(T_answer, 0, 4), FALSE)>>, "failed"),
             Stream(T_200, <<>>, "timeout"),
             Stream(<<"5", "0", "0">>, <<>>, "end") }

\* both variants are called with the question
AskBoth ==
    /\ pc = "idle"
    /\ s_pc = "idle"
    /\ pc' = "await1"
    /\ turn' = NewTurn
    /\ s_pc' = "await1"
    /\ s_turn' = NewStreamingTurn
    /\ UNCHANGED <<response, parsed, tools, registrations, last_dispatch, memories,
                   max_entries, csv_metadata, recorded, s_memories, streamed>>
    /\ UNCHANGED <<calc_vars, data_vars, session_vars>>

\* the steps both turns take when their pending model calls return
ResumeBoth(step, s_step) ==
    /\ pc' = step.pc
    /\ memories' = step.mem
    /\ turn' = step.turn
    /\ s_pc' = s_step.pc
    /\ s_memories' = s_step.mem
    /\ s_turn' = s_step.turn
    /\ UNCHANGED <<response, parsed, tools, registrations, last_dispatch, max_entries,
                   csv_metadata, recorded, streamed>>
    /\ UNCHANGED <<calc_vars, data_vars, session_vars>>

BothFirstResponse ==
    /\ pc = "await1"
    /\ s_pc = "await1"
    /\ \E resp \in Responses, outcome \in ToolOutcomes :
          ResumeBoth(AfterFirstResponse(tools, memories, max_entries, turn, resp,
                                        parse_tool_call(resp), outcome),
                     StreamAfterFirstResponse(tools, s_memories, max_entries, s_turn, resp,
                                              parse_tool_call(resp), outcome))

\* the second model call did run: process_question is given the text it
\* returned
SecondOf(run, tool_call, outcome) ==
    ResumeBoth(AfterSecondResponse(tools, memories, max_entries, turn, run.returned,
                                   tool_call, outcome),
               StreamAfterSecondResponse(s_memories, max_entries, s_turn, run, tool_call))

SecondRun(run, outcome) == SecondOf(run, parse_tool_call(run.returned), outcome)

BothSecondResponse ==
    /\ pc = "await2"
    /\ s_pc = "await2"
    /\ \E stream \in ModelStreams, outcome \in ToolOutcomes :
          SecondRun(generate_streaming(stream), outcome)

InitStreaming == Init

NextStreaming == AskBoth \/ BothFirstResponse \/ BothSecondResponse \/ ThirdResponse

SpecStreaming == InitStreaming /\ [][NextStreaming]_vars

-----------------------------------------------------------------------------
(* Properties of the orchestration loop (Spec)                             *)

Min(a, b) == IF a < b THEN a ELSE b

\* C1: a turn of process_question makes at most two tool dispatches, and
\* when its first and its second decision both name a real tool it makes
\* exactly two, whatever the tool results are and whatever the third model
\* text says.
C1_AtMostTwoDispatches ==
    /\ Len(turn.dispatches) <= 2
    /\ (/\ Len(turn.decisions) >= 2
        /\ NamesRealTool(turn.decisions[1])
        /\ NamesRealTool(turn.decisions[2]))
       => Len(turn.dispatches) = 2

\* a turn that returned after two dispatches on a third model text that
\* names a real tool again
C1_Witness ==
    /\ pc = "done"
    /\ Len(turn.decisions) = 3
    /\ NamesRealTool(turn.decisions[3])
    /\ Len(turn.dispatches) = 2

FirstIsSentinel ==
    /\ Len(turn.decisions) >= 1
    /\ Get(turn.decisions[1], KEY_tool_name, None) = Str(Generate_Final_Answer)

\* C2: when the first decision of a turn is the sentinel
\* Generate_Final_Answer, the turn makes no tool dispatch and exactly one
\* model call, and the answer it returns is the decision's tool_input.
C2_SentinelAnswersDirectly ==
    FirstIsSentinel =>
        /\ Len(turn.dispatches) = 0
        /\ Len(turn.responses) = 1
        /\ (pc = "done" /\ Has(turn.decisions[1], KEY_tool_input))
           => turn.answer = Lookup(turn.decisions[1], KEY_tool_input)

\* a turn that returned the tool_input of a fenced sentinel decision, which
\* is not the model text
C2_Witness ==
    /\ pc = "done"
    /\ FirstIsSentinel
    /\ turn.answer = Str(T_answer)
    /\ turn.responses[1] # T_answer

\* C3: no exception leaves a turn, and a turn that returns gives a text and
\* has recorded a final_answer entry last.
C3_TurnAlwaysReturns ==
    /\ pc # "raised"
    /\ pc = "done" =>
          /\ IsStr(turn.answer)
          /\ memories # <<>>
          /\ memories[Len(memories)].type = "final_answer"

-----------------------------------------------------------------------------
(* Properties of the memory (SpecMemory)                                   *)

\* C4: after k entries were recorded in a memory of capacity N >= 1 the log
\* has min(k, N) entries, and they are the last min(k, N) recorded, in the
\* order they were recorded.
C4_FifoBound ==
    /\ Len(memories) = Min(Len(recorded), max_entries)
    /\ memories = SubSeq(recorded, Len(recorded) - Len(memories) + 1, Len(recorded))

\* a log of capacity N >= 2 after N + 1 entries, the survivors not all alike
C4_Witness ==
    /\ max_entries >= 2
    /\ Len(recorded) = max_entries + 1
    /\ Len(memories) = max_entries
    /\ memories[1] # memories[2]
    /\ recorded[1] # memories[1]

-----------------------------------------------------------------------------
(* Properties of the response protocol (SpecParse)                         *)

\* response[start_idx:end_idx+1], the block as extracted
RawBlock(resp) == Slice(resp, StartIdx(resp), EndIdx(resp) + 1)

\* what json.loads makes of the block after the clean-up
DecodedBlock(resp) == json_loads(CleanJson(RawBlock(resp)))

NoBlock(resp) == StartIdx(resp) = -1 \/ EndIdx(resp) = -1

\* the fallback paths: no block, a block that does not decode, a decoded
\* object without tool_name
OnFallbackPath(resp) ==
    \/ NoBlock(resp)
    \/ ~DecodedBlock(resp).ok
    \/ ~Has(DecodedBlock(resp).dict, KEY_tool_name)

\* C5: for every model text parse_tool_call returns a mapping that has a
\* tool_name.
C5_DecisionHasToolName ==
    parsed # <<>> => Has(parsed[1], KEY_tool_name)

\* the text held an object that decodes and has no tool_name
C5_Witness ==
    /\ parsed # <<>>
    /\ ~NoBlock(response)
    /\ DecodedBlock(response).ok
    /\ ~Has(DecodedBlock(response).dict, KEY_tool_name)
    /\ Has(parsed[1], KEY_tool_name)

\* C6: on every fallback path the decision is exactly
\* {tool_name: Generate_Final_Answer, tool_input: the whole model text}.
C6_FallbackCarriesRawText ==
    (parsed # <<>> /\ OnFallbackPath(response)) =>
        /\ Keys(parsed[1]) = <<KEY_tool_name, KEY_tool_input>>
        /\ Lookup(parsed[1], KEY_tool_name) = Str(Generate_Final_Answer)
        /\ Lookup(parsed[1], KEY_tool_input) = Str(response)

\* a block that does not decode, extracted from a text that is longer than
\* the block and differs from its normalization
C6_Witness ==
    /\ parsed # <<>>
    /\ ~NoBlock(response)
    /\ ~DecodedBlock(response).ok
    /\ RawBlock(response) # response
    /\ Strip(Replace(response, <<"\n">>, <<" ">>)) # response
    /\ Lookup(parsed[1], KEY_tool_input) = Str(response)

\* the block of a fenced text is a well-formed object with tool_name and
\* tool_input
FencedWellFormed(resp) ==
    /\ Find(resp, FENCE_json, 0) # -1
    /\ ~NoBlock(resp)
    /\ json_loads(RawBlock(resp)).ok
    /\ Has(json_loads(RawBlock(resp)).dict, KEY_tool_name)
    /\ Has(json_loads(RawBlock(resp)).dict, KEY_tool_input)

\* C7: when the text holds a json fence followed by a well-formed object
\* with tool_name and tool_input (from the first "{" after the fence to the
\* last "}" of the text), the decision has exactly that object's tool_name
\* and tool_input.
C7_FencedObjectIsDecision ==
    (parsed # <<>> /\ FencedWellFormed(response)) =>
        /\ Has(parsed[1], KEY_tool_name)
        /\ Has(parsed[1], KEY_tool_input)
        /\ Get(parsed[1], KEY_tool_name, None)
              = Lookup(json_loads(RawBlock(response)).dict, KEY_tool_name)
        /\ Get(parsed[1], KEY_tool_input, None)
              = Lookup(json_loads(RawBlock(response)).dict, KEY_tool_input)

-----------------------------------------------------------------------------
(* Properties of the registry (SpecRegistry)                               *)

\* the registered entries whose name has the normal form of the dispatched name
MatchedEntries == Matches(tools, Normalize(last_dispatch[1].tool_name))

\* the capabilities the last dispatch called
Invoked == last_dispatch[1].returned.invoked

\* the last register_tool call of a name with the normal form of the
\* dispatched name
LastRegistration ==
    registrations[SetMax({i \in 1..Len(registrations) :
        Normalize(registrations[i].name) = Normalize(last_dispatch[1].tool_name)})]

\* C8: dispatching a name D invokes the capability registered under R for
\* every registered name R with the normal form of D.
C8_DispatchIgnoresCaseAndSpaces ==
    last_dispatch # <<>> =>
        \A i \in MatchedEntries :
            Invoked = <<[func |-> tools[i].func, input |-> last_dispatch[1].tool_input]>>

\* C9: the registry holds one entry for each normal form, and a dispatch
\* invokes the capability of the last registration of that normal form.
C9_LastRegistrationWins ==
    /\ \A i, j \in 1..Len(tools) :
          i # j => Normalize(tools[i].name) # Normalize(tools[j].name)
    /\ (last_dispatch # <<>> /\ MatchedEntries # {}) =>
          Invoked = <<[func |-> LastRegistration.func, input |-> last_dispatch[1].tool_input]>>

\* C10: dispatching a name that matches no registered name invokes no
\* capability and returns (None, "Tool not found: " + the name as given).
C10_ToolNotFound ==
    (last_dispatch # <<>> /\ MatchedEntries = {}) =>
        /\ ~last_dispatch[1].returned.raised
        /\ Invoked = <<>>
        /\ last_dispatch[1].returned.result = None
        /\ last_dispatch[1].returned.description = T_ToolNotFound \o last_dispatch[1].tool_name

\* a name whose normal form differs from it, dispatched on a registry that
\* holds tools and none for it
C10_Witness ==
    /\ last_dispatch # <<>>
    /\ tools # <<>>
    /\ MatchedEntries = {}
    /\ Normalize(last_dispatch[1].tool_name) # last_dispatch[1].tool_name
    /\ last_dispatch[1].returned.description = T_ToolNotFound \o last_dispatch[1].tool_name

\* C11: an exception raised by the matched capability is returned by
\* execute_tool as (None, "Error executing tool <name>: <message>"), <name>
\* the registered name; no dispatch of a string name raises, and the
\* dispatch leaves the registry's bindings as they were.
C11_CapabilityFailureIsCaught ==
    [][(last_dispatch' # <<>> /\ last_dispatch' # last_dispatch) =>
          /\ tools' = tools
          /\ ~last_dispatch'[1].returned.raised
          /\ (/\ last_dispatch'[1].outcome.kind = "raises"
              /\ Matches(tools, Normalize(last_dispatch'[1].tool_name)) # {})
             => /\ last_dispatch'[1].returned.result = None
                /\ last_dispatch'[1].returned.description =
                      T_ErrorExecuting
                        \o tools[SetMin(Matches(tools, Normalize(last_dispatch'[1].tool_name)))].name
                        \o T_ColonSpace \o last_dispatch'[1].outcome.msg]_vars

\* a dispatch under another spelling than the registered one, whose
\* capability was called and raised
C11_Witness ==
    /\ last_dispatch # <<>>
    /\ MatchedEntries # {}
    /\ last_dispatch[1].outcome.kind = "raises"
    /\ Invoked # <<>>
    /\ tools[SetMin(MatchedEntries)].name # last_dispatch[1].tool_name
    /\ last_dispatch[1].returned.result = None

-----------------------------------------------------------------------------
(* Properties of the calculator (SpecCalc)                                 *)

T_injected_rm ==     <<"2", "+", "2", "*", "3", ";", " ", "r", "m", " ", "-", "r", "f", " ", "/">>
T_injected_drop ==     <<"2", "+", "2", "*", "3", ";", " ", "d", "r", "o", "p">>
T_2p2m3 ==     <<"2", "+", "2", "*", "3">>
T_Result_8 ==     <<"R", "e", "s", "u", "l", "t", ":", " ", "8">>

\* the result field of what calculator_tool returned
CalcResult == Lookup(calculated[1].returned, KEY_result).v

\* whether text a is ';' followed by blanks and characters the calculator
\* deletes, one of them at least
DeletedText(a) ==
    /\ Len(a) >= 2
    /\ a[1] = ";"
    /\ \A i \in 2..Len(a) : a[i] = " " \/ a[i] \notin AllowedChars

\* whether text a is ';' followed by text that holds a character that is no
\* part of an arithmetic expression
NonArithmeticText(a) ==
    /\ Len(a) >= 2
    /\ a[1] = ";"
    /\ \E i \in 2..Len(a) : a[i] \notin AllowedChars

\* C12 as stated: "2+2*3; rm -rf /" is sanitized to "2+2*3" and evaluates to
\* 8, and appending ';' and non-arithmetic text to an arithmetic expression
\* yields the value of the expression.
C12_InjectedTextIsNeutralized ==
    calculated # <<>> =>
        /\ calc_input = T_injected_rm =>
              /\ calculated[1].sanitized = T_2p2m3
              /\ CalcResult = T_Result_8
        /\ \A e \in Expressions, a \in Appended :
              (calc_input = e \o a /\ NonArithmeticText(a) /\ eval(e).k # "exc")
                 => CalcResult = T_Result \o ValueText(eval(e))

\* C12, amended: the characters outside the allowed set are deleted and the
\* others kept, so that "2+2*3; rm -rf /" is sanitized to "2+2*3  - /" and
\* yields an error text, while appending ';' followed only by blanks and
\* deleted characters to an expression that has a value yields that value.
C12_DeletedTextIsNeutralized ==
    calculated # <<>> =>
        /\ calc_input = T_injected_rm =>
              /\ calculated[1].sanitized = T_2p2m3 \o <<" ", " ", "-", " ", "/">>
              /\ Slice(CalcResult, 0, Len(T_ErrorCalculating)) = T_ErrorCalculating
        /\ \A e \in Expressions, a \in Appended :
              (calc_input = e \o a /\ DeletedText(a) /\ eval(e).k # "exc")
                 => CalcResult = T_Result \o ValueText(eval(e))

C12_Witness ==
    /\ calculated # <<>>
    /\ calc_input = T_injected_drop
    /\ DeletedText(Slice(calc_input, Len(T_2p2m3), Len(calc_input)))
    /\ CalcResult = T_Result_8

\* C13: the text handed to eval holds only digits, + - * / ( ) . % and
\* whitespace, it is the input with the other characters deleted and the
\* order kept, and a failure of the evaluation is returned as an error text.
C13_OnlyArithmeticIsEvaluated ==
    calculated # <<>> =>
        /\ \A i \in 1..Len(calculated[1].sanitized) :
              calculated[1].sanitized[i]
                 \in Digits \cup {"+", "-", "*", "/", "(", ")", ".", "%"}
                       \cup {" ", "\t", "\n", "\r", "\f"}
        /\ calculated[1].sanitized =
              SelectSeq(calc_input,
                        LAMBDA c : c \in Digits \cup {"+", "-", "*", "/", "(", ")", ".", "%"}
                                           \cup {" ", "\t", "\n", "\r", "\f"})
        /\ eval(calculated[1].sanitized).k = "exc" =>
              CalcResult = T_ErrorCalculating \o eval(calculated[1].sanitized).msg
        /\ Lookup(calculated[1].returned, KEY_expression).v = calc_input

C13_Witness ==
    /\ calculated # <<>>
    /\ calc_input = T_injected_rm
    /\ Len(calculated[1].sanitized) < Len(calc_input)
    /\ eval(calculated[1].sanitized).k = "exc"
    /\ Slice(CalcResult, 0, Len(T_ErrorCalculating)) = T_ErrorCalculating

-----------------------------------------------------------------------------
(* Properties of the tabular-operation evaluator (SpecCsv)                 *)

\* whether the last call was Analyze_CSV on a loaded dataset
AnalyzedLoaded == last_call # <<>> /\ last_call[1].tool = T_Analyze_CSV /\ dataset # <<>>

\* whether the stripped operation text is no key of the allowlist and does
\* not start as a groupby
Unrecognized(df, operation) ==
    /\ \A i \in 1..Len(SafeOperations(df)) : SafeOperations(df)[i].k # operation
    /\ ~StartsWith(operation, T_df_groupby)

\* C14: an operation text matching neither the allowlist nor the groupby
\* pattern gives a tool result with an error field that carries the
\* operation-not-allowed message.
C14_RejectionHasErrorField ==
    (AnalyzedLoaded /\ Unrecognized(dataset[1], Strip(last_call[1].input))) =>
        /\ Has(last_call[1].returned, KEY_error)
        /\ Lookup(last_call[1].returned, KEY_error).v = T_NotAllowed \o Strip(last_call[1].input)

\* whether call is one the allowlist built from the columns of df holds
AllowlistCall(df, call) ==
    /\ call.agg = <<>>
    /\ \/ /\ call.column = <<>>
          /\ call.method \in {<<"h", "e", "a", "d">>, <<"t", "a", "i", "l">>,
                              <<"d", "e", "s", "c", "r", "i", "b", "e">>, <<"i", "n", "f", "o">>,
                              <<"i", "s", "n", "a", ".", "s", "u", "m">>,
                              <<"s", "h", "a", "p", "e">>,
                              <<"c", "o", "l", "u", "m", "n", "s">>,
                              <<"d", "t", "y", "p", "e", "s">>}
       \/ \E i \in 1..Len(df.columns) :
             /\ call.column = df.columns[i]
             /\ \/ call.method = T_value_counts
                \/ /\ df.dtypes[i] = "int64"
                   /\ call.method \in {T_mean, T_median, T_min, T_max, T_sum}

\* whether call is a groupby on one column label with an allowed aggregate
GroupbyCall(call) ==
    /\ call.method = T_groupby
    /\ call.agg \in {T_mean, T_sum, T_count, T_min, T_max}

\* C15: a call of the evaluator makes at most one pandas call, which is an
\* entry of the allowlist of the current dataset or a groupby on one column
\* with an aggregate of {mean, sum, count, min, max}, and leaves the dataset
\* as it was.
C15_OnlyWhitelistedCalls ==
    [][(last_call' # <<>> /\ last_call'[1].tool = T_Analyze_CSV) =>
          /\ dataset' = dataset
          /\ Len(last_call'[1].evaluation.executed) <= 1
          /\ \A i \in 1..Len(last_call'[1].evaluation.executed) :
                /\ dataset # <<>>
                /\ \/ AllowlistCall(dataset[1], last_call'[1].evaluation.executed[i])
                   \/ GroupbyCall(last_call'[1].evaluation.executed[i])]_vars

C15_Witness ==
    /\ AnalyzedLoaded
    /\ Len(last_call[1].evaluation.executed) = 1
    /\ GroupbyCall(last_call[1].evaluation.executed[1])
    /\ last_call[1].evaluation.result # None

-----------------------------------------------------------------------------
(* Properties of the filter-query interpreter (SpecCsv)                    *)

\* whether the last call was Query_Database
Queried == last_call # <<>> /\ last_call[1].tool = T_Query_Database

T_SELECT_ ==     <<"S", "E", "L", "E", "C", "T", " ">>
T__FROM_t_WHERE_ ==     <<" ", "F", "R", "O", "M", " ", "t", " ", "W", "H", "E", "R", "E", " ">>
T_q_max_nope ==     <<"S", "E", "L", "E", "C", "T", " ", "m", "a", "x", "(", "n", "o", "p", "e", ")",
      " ", "F", "R", "O", "M", " ", "t">>

\* the query SELECT <c1> FROM t WHERE <c2> = <n>
EqualityQuery(c1, c2, n) ==
    T_SELECT_ \o c1 \o T__FROM_t_WHERE_ \o c2 \o <<" ", "=", " ">> \o NatText(n)

\* the rows of df whose cell in column j is the number n, each projected to
\* column i
MatchingRows(df, i, j, n) ==
    [r \in 1..Len(SelectSeq(df.rows, LAMBDA row : row[j] = IntCell(n))) |->
        << [k |-> df.columns[i],
            val |-> CellValue(SelectSeq(df.rows, LAMBDA row : row[j] = IntCell(n))[r][i])] >>]

\* C16: SELECT <c1> FROM <t> WHERE <c2> = <number> returns exactly the rows
\* whose c2 equals the number, projected to c1, and total_rows is their
\* number; the rows {name A, age 30}, {name B, age 20} and the query
\* "SELECT name FROM t WHERE age = 30" give [{name: A}] and total_rows 1.
C16_EqualityQuerySelectsMatchingRows ==
    (Queried /\ dataset # <<>>) =>
        \A i, j \in 1..Len(dataset[1].columns), n \in {20, 30} :
            (/\ dataset[1].dtypes[j] = "int64"
             /\ last_call[1].input =
                   EqualityQuery(dataset[1].columns[i], dataset[1].columns[j], n))
            => /\ Has(last_call[1].returned, KEY_result)
               /\ Lookup(last_call[1].returned, KEY_result).d = MatchingRows(dataset[1], i, j, n)
               /\ Lookup(last_call[1].returned, KEY_total_rows).v
                     = NatText(Len(MatchingRows(dataset[1], i, j, n)))

\* whether the select list of the lowered query asks for sum, avg, min or
\* max of a label that is no column of df
AggregatesMissingColumn(df, select_part) ==
    /\ ~Contains(select_part, <<"*">>)
    /\ \E c \in 1..Len(SelectColumns(select_part)) :
          \E f \in {T_sum, T_avg, T_min, T_max} :
             /\ Contains(SelectColumns(select_part)[c], f \o <<"(">>)
             /\ \A i \in 1..Len(df.columns) :
                   df.columns[i] # AggColumn(SelectColumns(select_part)[c])

\* C17: Query_Database returns a dict in every case: one with an error
\* field when no dataset is loaded, when the text lacks SELECT or FROM, and
\* when the evaluation raises (an aggregate over a column that is absent).
C17_QueryFailuresAreErrorResults ==
    Queried =>
        /\ dataset = <<>> => last_call[1].returned = << [k |-> KEY_error, val |-> Str(T_NoCsvOrDb)] >>
        /\ (~Contains(Lower(last_call[1].input), T_select)
              \/ ~Contains(Lower(last_call[1].input), T_from))
             => /\ Has(last_call[1].returned, KEY_error)
                /\ Len(last_call[1].returned) = 1
        /\ (/\ dataset # <<>>
            /\ Contains(Lower(last_call[1].input), T_select)
            /\ Contains(Lower(last_call[1].input), T_from)
            /\ AggregatesMissingColumn(dataset[1],
                  Strip(Replace(Split(Lower(last_call[1].input), T_from)[1], T_select, <<>>))))
             => /\ Has(last_call[1].returned, KEY_error)
                /\ StartsWith(Lookup(last_call[1].returned, KEY_error).v, T_ErrorExecutingQuery)

C17_Witness ==
    /\ Queried
    /\ dataset # <<>>
    /\ last_call[1].input = T_q_max_nope
    /\ Has(last_call[1].returned, KEY_error)
    /\ StartsWith(Lookup(last_call[1].returned, KEY_error).v, T_ErrorExecutingQuery)

-----------------------------------------------------------------------------
(* Properties of the model calls (Spec)                                    *)

\* whether the first model call of the turn ended in the transport fault
FirstCallFaulted(fault) == turn.responses # <<>> /\ turn.responses[1] = generate(fault)

\* C18: a transport fault on a model call becomes a text starting with
\* "Error: " that is handled as model output: when the first model call of
\* a turn times out (or meets another fault), the turn makes that one model
\* call, dispatches no tool, returns the error text as its answer and
\* records it as the final answer.
C18_FaultTextIsTheAnswer ==
    \A fault \in TransportFaults :
        FirstCallFaulted(fault) =>
            /\ StartsWith(generate(fault), T_ErrorColon)
            /\ pc = "done"
            /\ Len(turn.responses) = 1
            /\ turn.dispatches = <<>>
            /\ turn.answer = Str(generate(fault))
            /\ memories # <<>>
            /\ memories[Len(memories)] = FinalAnswerEntry(Str(generate(fault)))

C18_Witness ==
    /\ FirstCallFaulted(ReadTimeout)
    /\ pc = "done"
    /\ turn.answer = Str(T_timeout)
    /\ memories[Len(memories)].type = "final_answer"

-----------------------------------------------------------------------------
(* Properties of generate_streaming (SpecStream)                           *)

\* the run of the call made, when one was made
StreamedRun == streamed[1]

\* the line decodes to a chunk (a dict)
IsChunk(loaded) == loaded.ok /\ loaded.t = "obj"

\* the chunk carries a text fragment
HasFragment(loaded) ==
    /\ IsChunk(loaded)
    /\ Has(loaded.dict, KEY_response)
    /\ IsStr(Lookup(loaded.dict, KEY_response))

\* the completion flag of the chunk is true
Completes(loaded) ==
    /\ IsChunk(loaded)
    /\ Has(loaded.dict, KEY_done)
    /\ Truthy(Lookup(loaded.dict, KEY_done))

\* the line decodes to something the loop cannot handle: no dict, or a dict
\* whose response is no text
Offends(loaded) ==
    /\ loaded.ok
    /\ \/ loaded.t # "obj"
       \/ /\ Has(loaded.dict, KEY_response)
          /\ ~IsStr(Lookup(loaded.dict, KEY_response))

\* the loop stops on the line
StopsAt(line) ==
    /\ line # <<>>
    /\ Completes(json_loads(line)) \/ Offends(json_loads(line))

\* the lines read: up to and including the first line the loop stops on
LinesRead(lines) ==
    IF \E i \in 1..Len(lines) : StopsAt(lines[i])
    THEN SetMin({i \in 1..Len(lines) : StopsAt(lines[i])})
    ELSE Len(lines)

RECURSIVE FragmentsOf(_, _)
\* the text fragments of the first n lines, in the order received
FragmentsOf(lines, n) ==
    IF n = 0 THEN <<>>
    ELSE IF lines[n] # <<>> /\ HasFragment(json_loads(lines[n]))
    THEN Append(FragmentsOf(lines, n - 1), Lookup(json_loads(lines[n]).dict, KEY_response).v)
    ELSE FragmentsOf(lines, n - 1)

\* the fragments passed to the sink, in the order passed
EmittedFragments(run) ==
    LET fragments == SelectSeq(run.emitted, LAMBDA e : e.kind = "fragment")
    IN [i \in 1..Len(fragments) |-> fragments[i].text]

RECURSIVE Concatenated(_)
Concatenated(texts) ==
    IF texts = <<>> THEN <<>> ELSE Head(texts) \o Concatenated(Tail(texts))

\* the stream ran to its end or to a chunk whose completion flag is true
Successful(run) == \A i \in 1..Len(run.emitted) : run.emitted[i].kind = "fragment"

\* C20: on a stream answered with status 200, the fragments passed to the
\* sink are the text fragments of the lines received up to and including
\* the first chunk whose completion flag is true (or the first chunk the
\* loop fails on, or the end of the stream), in the order received, none
\* dropped or duplicated; no line after that chunk is read and no fragment
\* is passed after it; an error text, if any, is the last item passed; and
\* when no error text was passed the text returned is the concatenation of
\* the fragments passed.
C20_FragmentsInOrderUpToDone ==
    (streamed # <<>> /\ StreamedRun.stream.status = T_200) =>
        /\ StreamedRun.received = LinesRead(StreamedRun.stream.lines)
        /\ EmittedFragments(StreamedRun)
             = FragmentsOf(StreamedRun.stream.lines, LinesRead(StreamedRun.stream.lines))
        /\ \A i \in 1..Len(StreamedRun.emitted) :
               StreamedRun.emitted[i].kind = "error" => i = Len(StreamedRun.emitted)
        /\ Successful(StreamedRun) =>
               StreamedRun.returned = Concatenated(EmittedFragments(StreamedRun))

T_Hel == <<"H", "e", "l">>
T_lo == <<"l", "o">>

\* a stream of two fragments, the second completing, and a chunk after it:
\* both fragments were passed, the third chunk was not read
C20_Witness ==
    /\ streamed # <<>>
    /\ StreamedRun.stream.lines = <<L_hel, L_lo_done, L_hel>>
    /\ StreamedRun.received = 2
    /\ StreamedRun.emitted = <<Fragment(T_Hel), Fragment(T_lo)>>
    /\ StreamedRun.returned = T_Hel \o T_lo

-----------------------------------------------------------------------------
(* Properties of the streaming turn (SpecStreaming)                        *)

\* the turn is over: the answer was returned or an exception left the call
Over(p) == p \in {"done", "raised"}

\* both variants were called
BothAsked == s_turn # <<>>

\* C19 as stated: for the same model texts and tool results the streaming
\* variant makes the same tool dispatches as process_question, a second
\* round included, and ends with the same final answer.
C19_SameDispatchesAndAnswer ==
    (BothAsked /\ Over(pc) /\ Over(s_pc)) =>
        /\ s_turn.dispatches = turn.dispatches
        /\ s_pc = pc
        /\ s_turn.answer = turn.answer

\* C19 amended: the streaming variant makes the first decision and at most
\* one dispatch as process_question does and never a second round.  Its
\* dispatches are the first (at most one) of process_question's; it takes
\* at most two model texts; when process_question dispatches at most once,
\* both end the same way with the same answer; when the second decision
\* names a real tool, the streaming variant has returned the second model
\* text verbatim.
C19_SingleRoundProtocol ==
    BothAsked =>
        /\ Len(s_turn.dispatches) <= 1
        /\ Len(s_turn.responses) <= 2
        /\ s_turn.dispatches = SubSeq(turn.dispatches, 1, Min(1, Len(turn.dispatches)))
        /\ Len(turn.dispatches) <= 1 =>
              /\ s_pc = pc
              /\ s_turn.answer = turn.answer
        /\ Len(turn.dispatches) = 2 =>
              /\ s_pc = "done"
              /\ s_turn.answer = Str(s_turn.responses[2])

\* process_question made a second round and answered from a third model
\* text; the streaming variant answered with the second model text
C19_Witness ==
    /\ BothAsked
    /\ pc = "done"
    /\ s_pc = "done"
    /\ Len(turn.dispatches) = 2
    /\ Len(s_turn.dispatches) = 1
    /\ s_turn.answer = Str(s_turn.responses[2])
    /\ s_turn.answer # turn.answer

-----------------------------------------------------------------------------
(* Properties of what a turn records (Spec)                                *)

\* the types of the entries of a log, in order
EntryTypesOf(mem) == [i \in 1..Len(mem) |-> mem[i].type]

\* the decision entries of a log
DecisionEntries(mem) == SelectSeq(mem, LAMBDA e : e.type = "agent_decision")

\* the memory holds every entry of the turn: it started empty and its
\* capacity is the default one, which no turn fills
KeepsWholeTurn == max_entries = MEMORY_SIZE

\* C26 as stated: every decision obtained from the model during a turn is
\* recorded as a decision entry, so a turn that returned has as many
\* decision entries as it made decisions.
C26_EveryDecisionRecorded ==
    (pc = "done" /\ KeepsWholeTurn) =>
        Len(DecisionEntries(memories)) = Len(turn.decisions)

\* the last decision of the turn and the model text it was parsed from
LastDecision == turn.decisions[Len(turn.decisions)]
LastResponse == turn.responses[Len(turn.responses)]

\* C27: a turn that used at least one tool and returned took its answer
\* from the last model text, which was received after the last dispatch:
\* when that text decodes to the sentinel with a tool_input the answer is
\* the tool_input, without one it is the text itself; when it names another
\* tool, even after the second round, the answer is the text verbatim and
\* nothing more was dispatched.
C27_AnswerFromLastResponse ==
    (pc = "done" /\ Len(turn.dispatches) >= 1) =>
        /\ Len(turn.responses) = Len(turn.dispatches) + 1
        /\ turn.events[Len(turn.events) - 1] = "generate"
        /\ IF Get(LastDecision, KEY_tool_name, None) = Str(Generate_Final_Answer)
           THEN turn.answer = Get(LastDecision, KEY_tool_input, Str(LastResponse))
           ELSE turn.answer = Str(LastResponse)

\* a turn of one round whose second model text is a fenced sentinel decision
\* returned its tool_input; the text itself is something else
C27_Witness ==
    /\ pc = "done"
    /\ Len(turn.dispatches) = 1
    /\ Get(LastDecision, KEY_tool_name, None) = Str(Generate_Final_Answer)
    /\ turn.answer = Str(T_answer)
    /\ LastResponse # T_answer

\* a turn of two rounds whose third model text names a real tool returned
\* that text
C27_RawWitness ==
    /\ pc = "done"
    /\ Len(turn.dispatches) = 2
    /\ NamesRealTool(LastDecision)
    /\ Has(LastDecision, KEY_tool_input)
    /\ turn.answer = Str(LastResponse)

RecordedKinds == {"agent_decision", "tool_result", "final_answer"}

\* the indices of an event in the turn
Occurrences(kind) == {i \in 1..Len(turn.events) : turn.events[i] = kind}

\* C28: the events of a turn are ordered.  The decision entry is recorded
\* once, right after the first model call and before any dispatch; each
\* tool_result entry is recorded right after its dispatch and the next
\* event is a model call; a final_answer entry is recorded at most once, is
\* the last event, and is there exactly when the turn has returned.  The
\* entries in memory are those events, in that order.
C28_EventsAreOrdered ==
    /\ turn.events # <<>> => turn.events[1] = "generate"
    /\ Occurrences("agent_decision") \subseteq {2}
    /\ Len(turn.events) >= 2 => turn.events[2] = "agent_decision"
    /\ \A i \in Occurrences("dispatch") : i > 2
    /\ \A i \in Occurrences("tool_result") :
          /\ turn.events[i - 1] = "dispatch"
          /\ i < Len(turn.events) => turn.events[i + 1] = "generate"
          /\ i = Len(turn.events) => pc \in {"await2", "await3"}
    /\ Occurrences("final_answer") \subseteq {Len(turn.events)}
    /\ pc = "done" <=> Occurrences("final_answer") # {}
    /\ KeepsWholeTurn =>
          EntryTypesOf(memories) = SelectSeq(turn.events, LAMBDA e : e \in RecordedKinds)

\* a turn of two rounds has returned: four entries were recorded
C28_Witness ==
    /\ pc = "done"
    /\ KeepsWholeTurn
    /\ EntryTypesOf(memories)
         = <<"agent_decision", "tool_result", "tool_result", "final_answer">>

-----------------------------------------------------------------------------
(* Properties of the aggregations of Query_Database (SpecCsv)              *)

\* the select list of a query, as query_database_tool extracts it
SelectPart(query) == Strip(Replace(Split(Lower(query), T_from)[1], T_select, <<>>))

\* the query is interpreted and an aggregate function token is in its
\* select list
AggregateQueried ==
    /\ Queried
    /\ dataset # <<>>
    /\ Contains(Lower(last_call[1].input), T_select)
    /\ Contains(Lower(last_call[1].input), T_from)
    /\ HasAgg(SelectPart(last_call[1].input))

\* C30 as stated: when an aggregate function token (count(, sum(, avg(,
\* min(, max() is in the select list, the dict returned maps each requested
\* expression to its scalar and holds no row list, count(*) included.
C30_AggregateTokenGivesMapping ==
    AggregateQueried =>
        /\ Keys(last_call[1].returned) = SelectColumns(SelectPart(last_call[1].input))
        /\ ~Has(last_call[1].returned, KEY_result)

-----------------------------------------------------------------------------
(* Properties of a session: loads, clears and the dataset capabilities     *)
(* (SpecSession), and of set_csv_metadata (SpecMemory)                     *)

LastOf(seq) == seq[Len(seq)]

\* the step is a call of op that the history records
Did(op) == events' # events /\ LastOf(events').op = op

\* C21: the render of the memory is exactly "<Empty>" if and only if the
\* memory holds no dataset summary and its log holds no entry, which is so
\* too after clear_memory when no dataset was ever loaded
C21_SentinelIffNothingHeld ==
    (get_formatted_memory(memories, csv_metadata) = T_Empty)
        <=> (csv_metadata.empty /\ memories = <<>>)

\* an entry was recorded and the memory cleared, no dataset being loaded:
\* the render is the sentinel
C21_Witness ==
    /\ Len(events) = 2
    /\ events[1].op = "add_entry"
    /\ events[2].op = "clear_memory"
    /\ csv_metadata.empty
    /\ get_formatted_memory(memories, csv_metadata) = T_Empty

\* C22: clear_memory empties the log and leaves the dataset summary, the
\* capacity, the registered capabilities and the dataset bound to the
\* registry as they were; with a dataset loaded the render still begins
\* with the dataset section
C22_ClearKeepsTheDataset ==
    [][Did("clear_memory") =>
          /\ memories' = <<>>
          /\ csv_metadata' = csv_metadata
          /\ max_entries' = max_entries
          /\ tools' = tools
          /\ dataset' = dataset
          /\ (~csv_metadata.empty =>
                 /\ get_formatted_memory(memories', csv_metadata') # T_Empty
                 /\ StartsWith(get_formatted_memory(memories', csv_metadata'), T_CsvData))]_vars

\* a dataset was loaded and the memory cleared: the log is empty, the
\* summary is the one of the dataset
C22_Witness ==
    /\ Len(events) = 2
    /\ events[1].op = "load_csv" /\ events[1].returned
    /\ events[2].op = "clear_memory"
    /\ memories = <<>>
    /\ csv_metadata = extract_metadata(dataset[1])
    /\ StartsWith(get_formatted_memory(memories, csv_metadata), T_CsvData)

\* the capability call made last was made on the frame bound now, or was
\* answered with a dict that holds an error and nothing else when nothing
\* is bound
OperatesOn(call, held) ==
    IF held = <<>> THEN Keys(call.returned) = <<KEY_error>>
    ELSE IF call.tool = T_Query_Database
    THEN /\ Has(call.returned, KEY_result)
         /\ Lookup(call.returned, KEY_result).d = Records(held[1])
    ELSE IF call.tool = T_Analyze_CSV
    THEN /\ Has(call.returned, KEY_result)
         /\ Lookup(call.returned, KEY_result).d[1].of = held[1]
    ELSE /\ Has(call.returned, KEY_visualization_data)
         /\ LET formatted == Lookup(call.returned, KEY_visualization_data).d
            IN  formatted[1].val.d[1].of = held[1]

\* C23: a dataset capability registered at construction works on the
\* dataset bound to the registry when it is called, and returns a dict with
\* an error and nothing else while no dataset is bound
C23_BindingReadAtCallTime ==
    [][(last_call' # last_call /\ last_call' # <<>>) => OperatesOn(last_call'[1], dataset')]_vars

\* two different datasets were loaded one after the other, and the
\* capability called last worked on the second
C23_Witness ==
    /\ Len(events) = 2
    /\ events[1].op = "load_csv" /\ events[1].returned
    /\ events[2].op = "load_csv" /\ events[2].returned
    /\ events[1].file # events[2].file
    /\ dataset = events[2].file[1].parsed
    /\ last_call # <<>>
    /\ OperatesOn(last_call[1], dataset)
    /\ ~OperatesOn(last_call[1], events[1].file[1].parsed)

\* the file of a load does not exist or is not parsed
Unreadable(file) == ~file.exists \/ file.parsed = <<>>

\* C24: load_csv of a file that does not exist or that read_csv does not
\* parse returns False, and leaves the dataset bound to the registry, the
\* summary and the log of the memory as they were
C24_FailedLoadChangesNothing ==
    [][(Did("load_csv") /\ Unreadable(LastOf(events').file[1])) =>
          /\ ~LastOf(events').returned
          /\ dataset' = dataset
          /\ csv_metadata' = csv_metadata
          /\ memories' = memories]_vars

\* a dataset was loaded, then a load failed: the first dataset is bound
C24_Witness ==
    /\ Len(events) = 2
    /\ events[1].op = "load_csv" /\ events[1].returned
    /\ events[2].op = "load_csv" /\ Unreadable(events[2].file[1]) /\ ~events[2].returned
    /\ dataset = events[1].file[1].parsed
    /\ csv_metadata = extract_metadata(dataset[1])
    /\ Len(memories) = 1

\* the step is a set_csv_metadata call
SetsDataset == recorded' # recorded /\ recorded' # <<>> /\ LastOf(recorded').type = "csv_loaded"

\* C29: set_csv_metadata makes the summary handed to it the summary of the
\* memory, with nothing of the earlier one, and appends one csv_loaded
\* entry about it, the oldest entry leaving when the log was full
C29_DatasetReplacedAndLogged ==
    [][SetsDataset =>
          /\ csv_metadata' \in Datasets
          /\ LastOf(memories') = CsvLoadedEntry(csv_metadata')
          /\ Len(memories') = Min(Len(memories) + 1, max_entries)
          /\ Len(memories') <= max_entries
          /\ \A i \in 1..(Len(memories') - 1) :
                memories'[i] = memories[Len(memories) - (Len(memories') - 1) + i]]_vars

\* a table without numeric column replaced one with numeric statistics in
\* a log that was full
C29_Witness ==
    /\ Len(recorded) > max_entries
    /\ LastOf(recorded).type = "csv_loaded"
    /\ \E i \in 1..(Len(recorded) - 1) : recorded[i] = CsvLoadedEntry(extract_metadata(People))
    /\ csv_metadata = extract_metadata(Labels(1))
    /\ "numeric_stats" \notin DOMAIN csv_metadata
    /\ Len(memories) = max_entries
    /\ LastOf(memories) = CsvLoadedEntry(csv_metadata)

-----------------------------------------------------------------------------
(* Properties of MongoDB_Query (SpecMongo)                                 *)

MongoOperations == {T_find, T_find_one, T_insert_one, T_update_one, T_delete_one, T_count}

\* the value handed to the capability is no text, no JSON, no JSON object,
\* or an object whose operation is none of the six
BadEnvelope(input) ==
    \/ input.t # "str"
    \/ ~json_loads(input.v).ok
    \/ json_loads(input.v).t # "obj"
    \/ ~Has(json_loads(input.v).dict, KEY_operation)
    \/ Lookup(json_loads(input.v).dict, KEY_operation).t # "str"
    \/ Lookup(json_loads(input.v).dict, KEY_operation).v \notin MongoOperations

MongoCalled == last_call # <<>> /\ last_call[1].tool = T_MongoDB_Query

\* C25: MongoDB_Query called with an envelope that is no valid JSON or
\* whose operation is none of find, find_one, insert_one, update_one,
\* delete_one and count returns a dict that holds an error text and
\* nothing else, and calls no method of the client
C25_BadEnvelopeIsAnErrorAndNoStoreCall ==
    (MongoCalled /\ BadEnvelope(last_call[1].input)) =>
        /\ Keys(last_call[1].returned) = <<KEY_error>>
        /\ Lookup(last_call[1].returned, KEY_error).t = "str"
        /\ last_call[1].calls = <<>>

\* a client with its collection is bound, and an envelope that names an
\* operation outside the six was answered with the error about it
C25_Witness ==
    /\ MongoCalled
    /\ mongo_client = <<[collection |-> TRUE]>>
    /\ last_call[1].input.t = "str"
    /\ json_loads(last_call[1].input.v).ok
    /\ Has(json_loads(last_call[1].input.v).dict, KEY_document)
    /\ BadEnvelope(last_call[1].input)
    /\ StartsWith(Lookup(last_call[1].returned, KEY_error).v, T_Unsupported)
    /\ last_call[1].calls = <<>>

-----------------------------------------------------------------------------
(* Properties of the WHERE filter and the row limit of Query_Database      *)
(* (SpecCsv)                                                               *)

\* the columns of df, as indices, whose label the clause holds followed by
\* an equality sign
EqualityColumns(df, where_clause) ==
    {i \in 1..Len(df.columns) : HasEquality(where_clause, df.columns[i])}

\* the rows of df that the condition of the clause keeps when it is applied
\* to the last of the columns it names and to no other
KeptByLast(df, where_clause) ==
    Keep(df, SetMax(EqualityColumns(df, where_clause)),
         ConditionValue(Strip(Split(where_clause, <<"=">>)[2])))

\* C31: when the labels of several columns occur in the WHERE clause with
\* an equality sign, the rows are restricted by the condition on the last
\* of these columns only; with columns age and average_age the clause
\* "average_age = 30" keeps the rows whose average_age is 30
C31_OnlyLastEqualityApplies ==
    (/\ Queried
     /\ dataset # <<>>
     /\ Has(last_call[1].returned, KEY_total_rows)
     /\ Cardinality(EqualityColumns(dataset[1], WhereClause(Lower(last_call[1].input)))) >= 2)
    => Lookup(last_call[1].returned, KEY_total_rows).v
          = NatText(Len(KeptByLast(dataset[1], WhereClause(Lower(last_call[1].input))).rows))

\* the call returned the dict of a query that is no aggregation
RowsReturned ==
    /\ Queried
    /\ dataset # <<>>
    /\ Keys(last_call[1].returned) = <<KEY_query, KEY_result, KEY_total_rows, KEY_returned_rows>>

\* the record is the row, for the columns the record holds
RecordOf(df, record, row) ==
    \A c \in 1..Len(record) :
        /\ ColumnIndex(df, record[c].k) # 0
        /\ record[c].val = CellValue(row[ColumnIndex(df, record[c].k)])

\* the dict is the one of a query that matched the rows of the frame
\* matched, of which limit at most are returned
LimitedTo(returned, matched, limit) ==
    /\ Lookup(returned, KEY_total_rows).v = NatText(Len(matched.rows))
    /\ Lookup(returned, KEY_returned_rows).v = NatText(Min(Len(matched.rows), limit))
    /\ Len(Lookup(returned, KEY_result).d) = Min(Len(matched.rows), limit)
    /\ \A r \in 1..Len(Lookup(returned, KEY_result).d) :
          RecordOf(matched, Lookup(returned, KEY_result).d[r], matched.rows[r])

\* C32: a query that is no aggregation and succeeds returns at most 50
\* rows: returned_rows is the length of the result list and the smaller of
\* total_rows and 50, the result list holds the first returned_rows rows the
\* WHERE filter keeps, in the order of the table, and total_rows is the
\* number of rows the filter keeps
C32_AtMostFiftyRows ==
    RowsReturned =>
        /\ Len(Lookup(last_call[1].returned, KEY_result).d) <= 50
        /\ LimitedTo(last_call[1].returned,
                     Filtered(dataset[1], WhereClause(Lower(last_call[1].input))), 50)

\* more than 50 rows passed the filter of a WHERE clause and 50 were
\* returned
C32_Witness ==
    /\ RowsReturned
    /\ WhereClause(Lower(last_call[1].input)) # <<>>
    /\ CROWD_ROWS - 1 > 50
    /\ Lookup(last_call[1].returned, KEY_total_rows).v = NatText(CROWD_ROWS - 1)
    /\ Lookup(last_call[1].returned, KEY_returned_rows).v = <<"5", "0">>
    /\ Len(Lookup(last_call[1].returned, KEY_result).d) = 50
    /\ Lookup(last_call[1].returned, KEY_result).d[2]
          = << [k |-> T_name, val |-> Str(<<"3">>)] >>

\* ---------------------------------------------------------------------
\* Properties of the column operations of Analyze_CSV (SpecCsv)
\* ---------------------------------------------------------------------

\* the canonical text df['<col>'].<method>()
Canonical(col, method) ==
    T_df \o <<"[", "'">> \o col \o <<"'", "]", ".">> \o method \o <<"(", ")">>

\* the methods offered for the column at position i of df
MethodsOf(df, i) ==
    {T_value_counts}
      \cup (IF df.dtypes[i] \in {"int64", "float64", "int32", "float32"}
            THEN {T_mean, T_median, T_min, T_max, T_sum} ELSE {})

\* Analyze_CSV was called on a dataset
Analyzed ==
    /\ last_call # <<>>
    /\ last_call[1].tool = T_Analyze_CSV
    /\ dataset # <<>>

\* C33: for every column of the dataset the text df['c'].value_counts() is
\* accepted, and for every numeric column the texts df['c'].mean(),
\* .median(), .min(), .max() and .sum() are accepted and return the
\* statistic of that column, whatever characters the label consists of
C33_CanonicalTextAccepted ==
    Analyzed =>
        \A i \in 1..Len(dataset[1].columns) : \A method \in MethodsOf(dataset[1], i) :
            Strip(last_call[1].input) = Canonical(dataset[1].columns[i], method)
            => /\ last_call[1].evaluation.executed
                    = <<PandasCall(method, dataset[1].columns[i], <<>>)>>
               /\ last_call[1].evaluation.result
                    = PandasValue(PandasCall(method, dataset[1].columns[i], <<>>), dataset[1])

\* ---------------------------------------------------------------------
\* Properties of the sentinel in process_question (Spec)
\* ---------------------------------------------------------------------

\* the decision names a tool whose normal form is the one of the sentinel
NormalizesToSentinel(tool_call) ==
    /\ Has(tool_call, KEY_tool_name)
    /\ IsStr(Lookup(tool_call, KEY_tool_name))
    /\ Normalize(Lookup(tool_call, KEY_tool_name).v) = Normalize(Generate_Final_Answer)

\* C34: no turn dispatches the sentinel through the registry: a decision
\* whose tool_name normalizes (lower case, spaces to underscores) to
\* generate_final_answer is the last decision of its turn, no execute_tool
\* call is made for it and no model call follows it
C34_SentinelNeverDispatched ==
    /\ \A i \in 1..Len(turn.dispatches) :
          ~(/\ IsStr(turn.dispatches[i].tool_name)
            /\ Normalize(turn.dispatches[i].tool_name.v) = Normalize(Generate_Final_Answer))
    /\ \A i \in 1..Len(turn.decisions) :
          NormalizesToSentinel(turn.decisions[i])
          => /\ i = Len(turn.decisions)
             /\ pc \in {"done", "raised"}

\* ---------------------------------------------------------------------
\* Properties of a failed dispatch in process_question (Spec)
\* ---------------------------------------------------------------------

\* the dispatch failed at the registry: execute_tool returned None with an
\* error string (no tool of that name, or the capability raised)
FailedAtRegistry(dispatch) ==
    /\ ~dispatch.raised
    /\ dispatch.result = None
    /\ \/ StartsWith(dispatch.description, T_ToolNotFound)
       \/ StartsWith(dispatch.description, T_ErrorExecuting)

\* the last dispatch of the turn failed at the registry and the next model
\* call is pending
FailureHandedOn ==
    /\ pc \in {"await2", "await3"}
    /\ turn.dispatches # <<>>
    /\ FailedAtRegistry(LastOf(turn.dispatches))

\* C35: when a dispatch fails at the registry, the error string the
\* registry returned is part of the tool response put into the prompt of the
\* next model call and of the tool_result entry recorded for the dispatch
C35_FailureReasonHandedOn ==
    FailureHandedOn =>
        /\ Contains(LastOf(turn.context), LastOf(turn.dispatches).description)
        /\ LastOf(memories).type = "tool_result"
        /\ \/ Contains(LastOf(memories).content, LastOf(turn.dispatches).description)
           \/ Contains(PyStr(Lookup(LastOf(memories).metadata, KEY_result)),
                       LastOf(turn.dispatches).description)

-----------------------------------------------------------------------------
(* Two turns on one agent                                                  *)
(*                                                                         *)
(* process_question is a coroutine: two calls on the same agent run on one *)
(* event loop and a turn gives way to the other only where it waits for    *)
(* the model (llm.generate); execute_tool and parse_tool_call never wait.  *)
(* pc and turn are the first coroutine, s_pc and s_turn the second; both   *)
(* work on memories.  recorded is the history of the add_entry calls: the  *)
(* entry and the coroutine that added it.                                  *)

\* a turn adds at most four entries: the decision, two tool results and
\* the final answer
TURN_ENTRIES == 4

\* texts of the model in the two turns
TurnResponses ==
    { JsonCall(Quoted(T_Calculator), Quoted(T_expr)),
      T_answer,
      JsonCall(<<"n", "u", "l", "l">>, Quoted(T_expr)) }

\* what the capability does in the two turns
TurnOutcomes == {Returns(RES_ok)}

\* the entries of the history
Entries(log) == [i \in 1..Len(log) |-> log[i].entry]

\* the history after the coroutine by made the log grow from the entries of
\* before to full
Logged(by, before, full) ==
    before \o [i \in 1..(Len(full) - Len(before)) |->
                  [by |-> by, entry |-> full[Len(before) + i]]]

\* the code a turn runs from the return of the model call pending at p to
\* its next model call, its return or its exception
TurnStep(p, reg, mem, max, t, resp, tool_call, outcome) ==
    CASE p = "await1" -> AfterFirstResponse(reg, mem, max, t, resp, tool_call, outcome)
      [] p = "await2" -> AfterSecondResponse(reg, mem, max, t, resp, tool_call, outcome)
      [] p = "await3" -> AfterThirdResponse(mem, max, t, resp, tool_call)

\* the step and the history it leaves: the same code run on the log from
\* which nothing was ever dropped
StepOf(p, t, resp, tool_call, outcome) ==
    [step |-> TurnStep(p, tools, memories, max_entries, t, resp, tool_call, outcome),
     full |-> TurnStep(p, tools, Entries(recorded), Len(recorded) + TURN_ENTRIES, t, resp,
                       tool_call, outcome).mem]

Awaiting == {"await1", "await2", "await3"}

\* the first call of process_question, up to its first model call
StartFirstTurn ==
    /\ pc = "idle"
    /\ pc' = "await1"
    /\ turn' = NewTurn
    /\ UNCHANGED <<response, parsed, tools, registrations, last_dispatch, memories,
                   max_entries, csv_metadata, recorded>>
    /\ UNCHANGED tool_vars

\* the second call of process_question, up to its first model call
StartSecondTurn ==
    /\ s_pc = "idle"
    /\ s_pc' = "await1"
    /\ s_turn' = NewTurn
    /\ UNCHANGED agent_vars
    /\ UNCHANGED <<calc_vars, data_vars, session_vars, streamed, s_memories>>

\* the pending model call of the first coroutine returns
FirstTurnResumes ==
    /\ pc \in Awaiting
    /\ \E resp \in TurnResponses, outcome \in TurnOutcomes :
          \E done \in {StepOf(pc, turn, resp, parse_tool_call(resp), outcome)} :
              /\ pc' = done.step.pc
              /\ turn' = done.step.turn
              /\ memories' = done.step.mem
              /\ recorded' = Logged(1, recorded, done.full)
    /\ UNCHANGED <<response, parsed, tools, registrations, last_dispatch, max_entries,
                   csv_metadata>>
    /\ UNCHANGED tool_vars

\* the pending model call of the second coroutine returns
SecondTurnResumes ==
    /\ s_pc \in Awaiting
    /\ \E resp \in TurnResponses, outcome \in TurnOutcomes :
          \E done \in {StepOf(s_pc, s_turn, resp, parse_tool_call(resp), outcome)} :
              /\ s_pc' = done.step.pc
              /\ s_turn' = done.step.turn
              /\ memories' = done.step.mem
              /\ recorded' = Logged(2, recorded, done.full)
    /\ UNCHANGED <<response, parsed, tools, registrations, last_dispatch, max_entries,
                   csv_metadata, pc, turn>>
    /\ UNCHANGED <<calc_vars, data_vars, session_vars, streamed, s_memories>>

InitTurns == Init

NextTurns == StartFirstTurn \/ StartSecondTurn \/ FirstTurnResumes \/ SecondTurnResumes

SpecTurns == InitTurns /\ [][NextTurns]_vars

\* ---------------------------------------------------------------------
\* Properties of two interleaved turns (SpecTurns)
\* ---------------------------------------------------------------------

\* the last n elements of seq
LastN(seq, n) == SubSeq(seq, (IF Len(seq) > n THEN Len(seq) - n ELSE 0) + 1, Len(seq))

\* the entries the coroutine by added, in the order of the history
RECURSIVE EntriesBy(_, _)
EntriesBy(log, by) ==
    IF log = <<>> THEN <<>>
    ELSE (IF Head(log).by = by THEN <<Head(log).entry>> ELSE <<>>) \o EntriesBy(Tail(log), by)

\* the entries a turn at position p adds in its own order: its first
\* decision, the result of each tool round it completed, its answer
OwnEntries(p, t) ==
    IF p = "idle" THEN <<>>
    ELSE (IF t.decisions = <<>> THEN <<>> ELSE <<DecisionEntry(t.decisions[1])>>)
         \o [i \in 1..Len(t.context) |->
                ToolResultEntry(t.dispatches[i].tool_name, t.dispatches[i].result)]
         \o (IF p = "done" THEN <<FinalAnswerEntry(t.answer)>> ELSE <<>>)

\* C36: when two turns of process_question on one agent interleave at
\* their model calls, the log is never longer than its capacity, it holds
\* the latest entries added (an entry leaves only as the oldest of a full
\* log), and the entries of each turn were added in that turn's own order
C36_InterleavedTurnsKeepTheLog ==
    /\ Len(memories) <= max_entries
    /\ memories = LastN(Entries(recorded), max_entries)
    /\ EntriesBy(recorded, 1) = OwnEntries(pc, turn)
    /\ EntriesBy(recorded, 2) = OwnEntries(s_pc, s_turn)

\* both turns returned after a tool round each, their entries alternate in
\* the history and the oldest were evicted
C36_Witness ==
    /\ pc = "done"
    /\ s_pc = "done"
    /\ Len(recorded) > max_entries
    /\ Len(memories) = max_entries
    /\ \E i, j, k \in 1..Len(recorded) :
          /\ i < j
          /\ j < k
          /\ recorded[i].by = 1
          /\ recorded[j].by = 2
          /\ recorded[k].by = 1
          /\ recorded[j].entry.type = "tool_result"

\* ---------------------------------------------------------------------
\* Properties of the summary and the binding in a session (SpecSession)
\* ---------------------------------------------------------------------

\* a load_csv call of the history returned True
LoadedOnce == \E i \in 1..Len(events) : events[i].op = "load_csv" /\ events[i].returned

PlainPairs ==
    { <<T_Calculator, T_expr>>, <<T_Calculator, T_input_comma_brace>>,
      <<Generate_Final_Answer, T_answer>>, <<T_query_database_spaced, T_expr>> }

\* the texts that carry the decision: the encoded object, bare or in a
\* json fence
Carriers(tool_name, tool_input) ==
    { JsonCall(Quoted(tool_name), Quoted(tool_input)),
      S_Fence \o JsonCall(Quoted(tool_name), Quoted(tool_input)) \o S_FenceEnd }

\* C38: decoding is a faithful round trip: for every tool_name and
\* tool_input string, those holding ",}" or ", ]" included, the encoded
\* object, bare or in a json fence, is decoded to exactly that tool_name and
\* tool_input
C38_DecodingIsRoundTrip ==
    parsed # <<>> =>
        \A pair \in PlainPairs :
            response \in Carriers(pair[1], pair[2])
            => parsed[1] = << [k |-> KEY_tool_name, val |-> Str(pair[1])],
                              [k |-> KEY_tool_input, val |-> Str(pair[2])] >>

\* ---------------------------------------------------------------------
\* Properties of the case of labels and literals in Query_Database (SpecCsv)
\* ---------------------------------------------------------------------

\* select <c1> from t where <c2> = '<literal>'
LiteralQuery(c1, c2, literal) ==
    <<"s", "e", "l", "e", "c", "t", " ">> \o c1
        \o <<" ", "f", "r", "o", "m", " ", "t", " ", "w", "h", "e", "r", "e", " ">> \o c2
        \o <<" ", "=", " ", "'">> \o literal \o <<"'">>

\* the rows of df whose cell in column j is the text literal, each
\* projected to column i
RowsWithText(df, i, j, literal) ==
    [r \in 1..Len(SelectSeq(df.rows, LAMBDA row : row[j] = StrCell(literal))) |->
        << [k |-> df.columns[i],
            val |-> CellValue(SelectSeq(df.rows, LAMBDA row : row[j] = StrCell(literal))[r][i])] >>]

\* C39: only the keywords of a query are matched without regard to case:
\* the quoted literal and the column labels are compared in the case they
\* were written in, so select <c1> from t where <c2> = '<literal>' returns
\* the rows whose c2 is that literal, projected to c1
C39_LiteralAndLabelsKeepTheirCase ==
    (Queried /\ dataset # <<>>) =>
        \A i, j \in 1..Len(dataset[1].columns), literal \in {<<"A">>, <<"a">>, <<"B">>} :
            (/\ dataset[1].dtypes[j] = "object"
             /\ last_call[1].input
                   = LiteralQuery(dataset[1].columns[i], dataset[1].columns[j], literal))
            => /\ Has(last_call[1].returned, KEY_result)
               /\ Lookup(last_call[1].returned, KEY_result).d
                     = RowsWithText(dataset[1], i, j, literal)
               /\ Lookup(last_call[1].returned, KEY_total_rows).v
                     = NatText(Len(RowsWithText(dataset[1], i, j, literal)))

\* ---------------------------------------------------------------------
\* Properties of the text generate_streaming returns (SpecStream)
\* ---------------------------------------------------------------------

\* everything the run passed to the sink, in order
Emitted(run) == [i \in 1..Len(run.emitted) |-> run.emitted[i].text]

\* C40: for every run of generate_streaming, a status other than 200 and a
\* failure in the middle of the stream included, the text returned is the
\* concatenation of everything that was passed to the sink
C40_ReturnedIsWhatTheSinkGot ==
    streamed # <<>> => StreamedRun.returned = Concatenated(Emitted(StreamedRun))

=============================================================================
